---- MODULE Spec2Model ----
(***************************************************************************)
(* A model of the Workflow engine of cwl-svg (src/src/graph/workflow.ts)   *)
(* and of its plugin interface (src/src/plugins/plugin.ts): the viewport   *)
(* transform, the selection markers, the drag-boundary interval, the event *)
(* hub and the plugin hooks.                                               *)
(*                                                                         *)
(* Numbers: the engine computes with JavaScript numbers.  Every quantity   *)
(* that is divided (scale, the matrix entries, the accumulated offsets,    *)
(* dragBoundary) is an exact rational [n |-> numerator, d |-> denominator] *)
(* in lowest terms with d > 0; screen coordinates are integers (pixels).   *)
(***************************************************************************)
EXTENDS Integers, Sequences, FiniteSets, TLC

(***************************************************************************)
(* Rational arithmetic (the arithmetic of the JavaScript expressions).     *)
(***************************************************************************)
Abs(x) == IF x < 0 THEN -x ELSE x

RECURSIVE GCD(_, _)
GCD(a, b) == IF b = 0 THEN a ELSE GCD(b, a % b)

\* n / d in lowest terms, d # 0
Rat(n, d) ==
    LET s == IF d < 0 THEN -1 ELSE 1
        g == GCD(Abs(n), Abs(d))
    IN  [n |-> (s * n) \div g, d |-> (s * d) \div g]

RInt(i) == [n |-> i, d |-> 1]
RAdd(p, q) == Rat(p.n * q.d + q.n * p.d, p.d * q.d)
RSub(p, q) == Rat(p.n * q.d - q.n * p.d, p.d * q.d)
RMul(p, q) == Rat(p.n * q.n, p.d * q.d)
\* p / q, q # 0
RDiv(p, q) == Rat(p.n * q.d, p.d * q.n)
RAbs(p) == [n |-> Abs(p.n), d |-> p.d]
\* NaN and Infinity, which a division by 0 gives; every other operator here
\* is used on finite numbers only
NaN == [n |-> 0, d |-> 0]
Infinity == [n |-> 1, d |-> 0]
\* n / d for integers n >= 0 and d: 0 / 0 is NaN, n / 0 is Infinity
Quot(n, d) == IF d # 0 THEN Rat(n, d) ELSE IF n = 0 THEN NaN ELSE Infinity
\* p < q and p <= q for finite numbers or NaN: false when either is NaN
RLt(p, q) == p.d # 0 /\ q.d # 0 /\ p.n * q.d < q.n * p.d
RLe(p, q) == p.d # 0 /\ q.d # 0 /\ p.n * q.d <= q.n * p.d
RMin(p, q) == IF RLt(q, p) THEN q ELSE p
RMax(p, q) == IF RLt(p, q) THEN q ELSE p

(***************************************************************************)
(* Program constants.                                                      *)
(***************************************************************************)
\* Workflow.minScale = 0.2 and Workflow.maxScale = 2
minScale == Rat(1, 5)
maxScale == RInt(2)
\* the divisor of ev.deltaY in the mousewheel handler
WheelDivisor == 500
\* const padding = 100 in fitToViewport
padding == 100
\* private dragBoundary = 50; private dragBoundaryTranslation = 5
dragBoundaryDefault == 50
dragBoundaryTranslation == 5

(***************************************************************************)
(* Bounds of the model.                                                    *)
(***************************************************************************)
\* how many operations that move the viewport a behaviour may take
MaxViewOps == 2
\* how many renders after the constructor's a behaviour may take
MaxRenders == 2
\* how many interval ticks a behaviour may take
MaxTicks == 2
\* how many model notifications / hub commands a behaviour may take
MaxNotes == 2
\* how many intervals a behaviour may create
MaxTimers == 2
\* how long handlersThatCanBeDisabled may grow by enableGraphManipulations
MaxHandlers == 2
\* how many plugins an engine is given
MaxPlugins == 2
\* how many halvings a number takes before the next one gives 0: a double
\* underflows to 0 in the end, here after this many
MaxHalvings == 6


(***************************************************************************)
(* The workflow model (the cwlts WorkflowModel the engine renders) over a  *)
(* small universe: one input, two steps, one output, and the connections   *)
(* that may exist between them.  A connection <<s, d>> runs from the       *)
(* output port of node s to the input port of node d.                      *)
(***************************************************************************)
Inputs == {"i1"}
Steps == {"s1", "s2"}
Outputs == {"o1"}
Nodes == Inputs \cup Steps \cup Outputs
PossibleEdges == {<<"i1", "s1">>, <<"s1", "s2">>, <<"s2", "o1">>, <<"s1", "o1">>}

\* An element of the canvas: a node <g class="node">, an edge
\* <g class="edge"> or a port of a node; NoEl stands for null.
NodeEl(n) == [k |-> "node", a |-> n, b |-> ""]
EdgeEl(c) == [k |-> "edge", a |-> c[1], b |-> c[2]]
PortEl(n, side) == [k |-> "port", a |-> n, b |-> side]
NoEl == [k |-> "null", a |-> "", b |-> ""]

\* An entry of the trace of one operation: an emission on the event hub
\* (beforeChange, afterChange, selectionChange with its element), a call to
\* the model (model.remove), a render, or a plugin call with the plugin's
\* index.
Ev(name, el, i) == [ev |-> name, el |-> el, i |-> i]

\* the notifications of the model the engine subscribes to
ModelEvents == {"step.change", "input.create", "output.create",
                "connection.create", "connections.updated"}
\* the hub events the engine itself subscribes to in attachEvents
HubCommands == {"app.create.input", "app.create.output", "app.create.step"}

\* the screen rectangles of the svg root (getBoundingClientRect)
SvgRects == {[left |-> 0, top |-> 0, width |-> 400, height |-> 300],
             [left |-> 10, top |-> 20, width |-> 600, height |-> 400],
             [left |-> 0, top |-> 0, width |-> 100, height |-> 300],
             [left |-> 0, top |-> 0, width |-> 0, height |-> 300]}
\* the bounding boxes of the rendered content, in canvas coordinates
ContentBoxes == {[x |-> 0, y |-> 0, w |-> 0, h |-> 0],
                 [x |-> 50, y |-> 40, w |-> 200, h |-> 100],
                 [x |-> 0, y |-> 0, w |-> 3000, h |-> 400]}
\* the plugins an engine may be given: which of the four optional methods
\* of SVGPlugin each one defines.  early: the plugin calls the function it
\* is given by registerOnBeforeChange / registerOnAfterChange at once, before
\* the registration call returns
PluginKinds ==
    [rwm : BOOLEAN, robc : BOOLEAN, roac : BOOLEAN, ar : BOOLEAN, early : {FALSE}]
\* plugins that define the three registration methods, and call what they
\* are given at once or only later
HookedPluginKinds ==
    [rwm : {TRUE}, robc : {TRUE}, roac : {TRUE}, ar : BOOLEAN, early : BOOLEAN]

VARIABLES
    phase,        \* "new" | "ready" | "threw" | "destroyed" | "degenerate"
                  \* | "resizing" | "resized": in and past the loop that resizes dragBoundary
    plugins,      \* this.plugins
    svgRect,      \* svgRoot.getBoundingClientRect()
    scale,        \* this.scale
    matrix,       \* workflow.transform.baseVal.getItem(0).matrix: a (= d), e, f
    labelScale,   \* the a and d of the labels' matrices
    model,        \* this.model: nodes, edges, arrange (a node lacks sbg:x / sbg:y)
    domNodes,     \* how many .node elements the canvas holds per node id
    domEdges,     \* how many .edge elements the canvas holds per connection
    selected,     \* the elements carrying the class "selected"
    highlighted,  \* the elements carrying the class "highlighted"
    hasSelection, \* the workflow <g> carries the class "has-selection"
    modelSubs,    \* per model notification, how many engine handlers are registered
    eventHub,     \* this.eventHub has been assigned
    hubSubs,      \* the hub events that have the engine's handler
    wheel,        \* the mousewheel listener is attached to the svg root
    clickSets,    \* how many times the click listeners of addEventListeners are attached
    keyupLive,    \* the ids of the attached keyup (deletion) listeners
    handlersThatCanBeDisabled, \* the ids whose off() the array holds
    disableManipulations,
    isDragging,
    dragBoundary, \* this.dragBoundary
    dragBoundaryInterval,       \* x, y, interval (0 for null), xOffset, yOffset, highlightedPort
    workflowBoundingClientRect, \* the rectangle last stored, or Undefined
    timers,       \* the live intervals: id, and the direction each closure captured
    nTimers,      \* how many intervals setInterval has created
    drag,         \* the drag session of a node: start, last pointer, the element's translate
    ghostIO,      \* the ghost node of a new connection: hidden, its translate, its edge's d
    trace,        \* what the last operation emitted and called, in order
    heard,        \* what the selectionChange handlers were called with in it
    lastOp,       \* the last operation and its input
    nViewOps, nRenders, nNotes, nTicks

vars == <<phase, plugins, svgRect, scale, matrix, labelScale, model, domNodes,
          domEdges, selected, highlighted, hasSelection, modelSubs, eventHub,
          hubSubs, wheel, clickSets, keyupLive, handlersThatCanBeDisabled,
          disableManipulations, isDragging, dragBoundary, dragBoundaryInterval,
          workflowBoundingClientRect, timers, nTimers, drag, ghostIO, trace, heard,
          lastOp,
          nViewOps, nRenders, nNotes, nTicks>>

\* The engine's fields as one record, so that a method that calls other
\* methods is the composition of their effects.
State ==
    [plugins |-> plugins, svgRect |-> svgRect, scale |-> scale, matrix |-> matrix,
     labelScale |-> labelScale, model |-> model, domNodes |-> domNodes,
     domEdges |-> domEdges, selected |-> selected, highlighted |-> highlighted,
     hasSelection |-> hasSelection, modelSubs |-> modelSubs,
     eventHub |-> eventHub, hubSubs |-> hubSubs,
     wheel |-> wheel, clickSets |-> clickSets, keyupLive |-> keyupLive,
     handlersThatCanBeDisabled |-> handlersThatCanBeDisabled,
     disableManipulations |-> disableManipulations, isDragging |-> isDragging,
     dragBoundary |-> dragBoundary, dragBoundaryInterval |-> dragBoundaryInterval,
     workflowBoundingClientRect |-> workflowBoundingClientRect, timers |-> timers,
     nTimers |-> nTimers, drag |-> drag, ghostIO |-> ghostIO, trace |-> trace,
     heard |-> heard]

SetState(s) ==
    LET r == s IN
    /\ plugins' = r.plugins
    /\ svgRect' = r.svgRect
    /\ scale' = r.scale
    /\ matrix' = r.matrix
    /\ labelScale' = r.labelScale
    /\ model' = r.model
    /\ domNodes' = r.domNodes
    /\ domEdges' = r.domEdges
    /\ selected' = r.selected
    /\ highlighted' = r.highlighted
    /\ hasSelection' = r.hasSelection
    /\ modelSubs' = r.modelSubs
    /\ eventHub' = r.eventHub
    /\ hubSubs' = r.hubSubs
    /\ wheel' = r.wheel
    /\ clickSets' = r.clickSets
    /\ keyupLive' = r.keyupLive
    /\ handlersThatCanBeDisabled' = r.handlersThatCanBeDisabled
    /\ disableManipulations' = r.disableManipulations
    /\ isDragging' = r.isDragging
    /\ dragBoundary' = r.dragBoundary
    /\ dragBoundaryInterval' = r.dragBoundaryInterval
    /\ workflowBoundingClientRect' = r.workflowBoundingClientRect
    /\ timers' = r.timers
    /\ nTimers' = r.nTimers
    /\ drag' = r.drag
    /\ ghostIO' = r.ghostIO
    /\ trace' = r.trace
    /\ heard' = r.heard

\* The hub calls the handlers of an event before emit returns.  A handler
\* of selectionChange is called with the element and finds it with or
\* without the class "selected" as the engine has it at that moment.
invokeHandlers(s, name, el) ==
    IF name = "selectionChange"
    THEN [s EXCEPT !.heard = Append(@, [el |-> el, selected |-> el \in s.selected])]
    ELSE s

\* eventHub.emit(event, el): the trace records the emission
emit(s, name, el) ==
    invokeHandlers([s EXCEPT !.trace = Append(@, Ev(name, el, 0))], name, el)

(***************************************************************************)
(* The viewport.                                                           *)
(***************************************************************************)
\* The screen CTM of the workflow <g> is its matrix after the translation
\* of the svg root to its place on the screen; the canvas point of a screen
\* point (x, y), given as rationals, is its image under the inverse.
\* Defined while matrix.a # 0.
transformScreenCTMtoCanvas(s, x, y) ==
    [x |-> RDiv(RSub(RSub(x, RInt(s.svgRect.left)), s.matrix.e), s.matrix.a),
     y |-> RDiv(RSub(RSub(y, RInt(s.svgRect.top)), s.matrix.f), s.matrix.a)]

\* 1 + (1 - scale) / (scale * 2)
LabelScaleOf(sc) ==
    RAdd(RInt(1), RDiv(RSub(RInt(1), sc), RMul(sc, RInt(2))))

\* scaleWorkflow with the canvas point of the screen origin for every ev
scaleWorkflowAtOrigin(s, scaleCoefficient, px, py) ==
    LET coords == transformScreenCTMtoCanvas(s, RInt(0), RInt(0))
        e1 == RAdd(s.matrix.e, RMul(s.matrix.a, coords.x))
        f1 == RAdd(s.matrix.f, RMul(s.matrix.a, coords.y))
    IN  [s EXCEPT !.scale = scaleCoefficient,
                  !.matrix = [a |-> scaleCoefficient,
                              e |-> RSub(e1, RMul(scaleCoefficient, coords.x)),
                              f |-> RSub(f1, RMul(scaleCoefficient, coords.y))],
                  !.labelScale = LabelScaleOf(scaleCoefficient)]

\* scaleWorkflow(scaleCoefficient, ev): the pivot (px, py) is ev's client
\* point, or the screen point (0, 0) without ev
scaleWorkflow(s, scaleCoefficient, px, py) ==
    LET coords == transformScreenCTMtoCanvas(s, px, py)
        e1 == RAdd(s.matrix.e, RMul(s.matrix.a, coords.x))
        f1 == RAdd(s.matrix.f, RMul(s.matrix.a, coords.y))
    IN  [s EXCEPT !.scale = scaleCoefficient,
                  !.matrix = [a |-> scaleCoefficient,
                              e |-> RSub(e1, RMul(scaleCoefficient, coords.x)),
                              f |-> RSub(f1, RMul(scaleCoefficient, coords.y))],
                  !.labelScale = LabelScaleOf(scaleCoefficient)]

Identity == [a |-> RInt(1), e |-> RInt(0), f |-> RInt(0)]

(***************************************************************************)
(* Selection and highlighting.                                             *)
(***************************************************************************)
\* querySelector(".selected"): the first selected element in document
\* order, where the edges come before the nodes
FirstSelected(s) ==
    IF \E x \in s.selected : x.k = "edge"
    THEN CHOOSE x \in s.selected : x.k = "edge"
    ELSE CHOOSE x \in s.selected : TRUE

\* deselectEverything without the removal of the selected class
deselectEverythingKeepingSelected(s) ==
    emit([s EXCEPT !.highlighted = {}, !.hasSelection = FALSE], "selectionChange", NoEl)

\* deselectEverything without the removal of the highlighted classes
deselectEverythingKeepingHighlighted(s) ==
    LET s1 == [s EXCEPT !.hasSelection = FALSE,
                        !.selected = IF @ = {} THEN {} ELSE @ \ {FirstSelected(s)}]
    IN  emit(s1, "selectionChange", NoEl)

deselectEverything(s) ==
    LET s1 == [s EXCEPT !.highlighted = {},
                        !.hasSelection = FALSE,
                        !.selected = IF @ = {} THEN {} ELSE @ \ {FirstSelected(s)}]
    IN  emit(s1, "selectionChange", NoEl)

\* the .edge elements of the canvas with the node at one end
EdgesAt(s, n) ==
    {c \in PossibleEdges : s.domEdges[c] > 0 /\ (c[1] = n \/ c[2] = n)}

\* activateSelection that looks for the edges leaving the node only
activateSelectionOutgoing(s, el) ==
    LET s1 == deselectEverything(s)
        near == {c \in EdgesAt(s1, el.a) : c[1] = el.a}
        ends == {m \in Nodes : s1.domNodes[m] > 0 /\ \E c \in near : m = c[1] \/ m = c[2]}
        s2 == [s1 EXCEPT !.hasSelection = TRUE,
                         !.highlighted = @ \cup {EdgeEl(c) : c \in near}
                                           \cup {NodeEl(m) : m \in ends},
                         !.selected = @ \cup {el}]
    IN  emit(s2, "selectionChange", el)

\* activateSelection(el) for the node element el
activateSelection(s, el) ==
    LET s1 == deselectEverything(s)
        near == EdgesAt(s1, el.a)
        ends == {m \in Nodes : s1.domNodes[m] > 0 /\ \E c \in near : m = c[1] \/ m = c[2]}
        s2 == [s1 EXCEPT !.hasSelection = TRUE,
                         !.highlighted = @ \cup {EdgeEl(c) : c \in near}
                                           \cup {NodeEl(m) : m \in ends},
                         !.selected = @ \cup {el}]
    IN  emit(s2, "selectionChange", el)

\* highlightEdge that highlights the two end nodes instead of the ports
highlightEdgeNodes(s, el) ==
    LET ends == {p \in {NodeEl(el.a), NodeEl(el.b)} : s.domNodes[p.a] > 0}
        s1 == [s EXCEPT !.highlighted = @ \cup ends]
    IN  emit(s1, "selectionChange", el)

\* highlightEdge(el) for the edge element el: its two terminal ports
highlightEdge(s, el) ==
    LET ports == {p \in {PortEl(el.a, "out"), PortEl(el.b, "in")} : s.domNodes[p.a] > 0}
        s1 == [s EXCEPT !.highlighted = @ \cup ports]
    IN  emit(s1, "selectionChange", el)

(***************************************************************************)
(* Rendering, listeners and plugins.                                       *)
(***************************************************************************)
\* attachSelectionDeletionBehavior: one more keyup listener, its off() kept
attachSelectionDeletionBehavior(s) ==
    LET id == Len(s.handlersThatCanBeDisabled) + 1
    IN  [s EXCEPT !.keyupLive = @ \cup {id},
                  !.handlersThatCanBeDisabled = Append(@, id)]

\* addEventListeners: the click (and pan, mouseover) listeners, and the
\* deletion listener unless manipulations are disabled
addEventListeners(s) ==
    LET s1 == [s EXCEPT !.clickSets = @ + 1]
    IN  IF ~s1.disableManipulations THEN attachSelectionDeletionBehavior(s1) ELSE s1

\* clearCanvas: domEvents.detachAll(), innerHTML = "", class = "workflow"
clearCanvas(s) ==
    [s EXCEPT !.clickSets = 0,
              !.keyupLive = {},
              !.domNodes = [n \in Nodes |-> 0],
              !.domEdges = [c \in PossibleEdges |-> 0],
              !.selected = {},
              !.highlighted = {},
              !.hasSelection = FALSE]

\* invokePlugins without the test that the method is a function
RECURSIVE invokePluginsUnchecked(_, _)
invokePluginsUnchecked(s, i) ==
    IF i > Len(s.plugins) THEN s
    ELSE invokePluginsUnchecked(
            [s EXCEPT !.trace = Append(@, Ev("afterRender", NoEl, i))], i + 1)

\* invokePlugins("afterRender"): from index i on, each plugin whose
\* afterRender is a function
RECURSIVE invokePluginsFrom(_, _)
invokePluginsFrom(s, i) ==
    IF i > Len(s.plugins) THEN s
    ELSE invokePluginsFrom(
            IF s.plugins[i].ar
            THEN [s EXCEPT !.trace = Append(@, Ev("afterRender", NoEl, i))]
            ELSE s,
            i + 1)

invokePlugins(s) == invokePluginsFrom(s, 1)

\* the three model.on(...) that end renderModel
renderModelOn(s) ==
    [s EXCEPT !.modelSubs = [ev \in ModelEvents |->
        IF ev \in {"input.create", "output.create", "connection.create"}
        THEN @[ev] + 1 ELSE @[ev]]]

\* renderModel without the restoration of the transform
renderModelLosingTransform(s) ==
    LET s0 == [s EXCEPT !.trace = Append(@, Ev("render", NoEl, 0))]
        selectedItemConnectionID ==
            IF s0.selected = {} THEN NoEl
            ELSE IF FirstSelected(s0).k = "node" THEN FirstSelected(s0) ELSE NoEl
        s1 == [clearCanvas(s0) EXCEPT !.matrix = Identity]
        s2 == [s1 EXCEPT !.domNodes = [n \in Nodes |-> IF n \in s1.model.nodes THEN 1 ELSE 0],
                         !.domEdges = [c \in PossibleEdges |-> IF c \in s1.model.edges THEN 1 ELSE 0]]
        s3 == addEventListeners(s2)
        s4 == IF s3.model.arrange THEN s3 ELSE scaleWorkflow(s3, s3.scale, RInt(0), RInt(0))
        s5 == IF selectedItemConnectionID # NoEl /\ s4.domNodes[selectedItemConnectionID.a] > 0
              THEN activateSelection(s4, selectedItemConnectionID)
              ELSE s4
    IN  renderModelOn(invokePlugins(s5))

\* renderModel(model) for the engine's own model
renderModel(s) ==
    LET s0 == [s EXCEPT !.trace = Append(@, Ev("render", NoEl, 0))]
        oldTransform == s0.matrix
        \* data-connection-id of the selected element: a node's id, and
        \* nothing for an edge, which carries no such attribute
        selectedItemConnectionID ==
            IF s0.selected = {} THEN NoEl
            ELSE IF FirstSelected(s0).k = "node" THEN FirstSelected(s0) ELSE NoEl
        s1 == [clearCanvas(s0) EXCEPT !.matrix = Identity]
        s2 == [s1 EXCEPT !.domNodes = [n \in Nodes |-> IF n \in s1.model.nodes THEN 1 ELSE 0],
                         !.domEdges = [c \in PossibleEdges |-> IF c \in s1.model.edges THEN 1 ELSE 0]]
        s3 == [addEventListeners(s2) EXCEPT !.matrix = oldTransform]
        s4 == IF s3.model.arrange THEN s3 ELSE scaleWorkflow(s3, s3.scale, RInt(0), RInt(0))
        s5 == IF selectedItemConnectionID # NoEl /\ s4.domNodes[selectedItemConnectionID.a] > 0
              THEN activateSelection(s4, selectedItemConnectionID)
              ELSE s4
    IN  renderModelOn(invokePlugins(s5))

\* attachEvents: model.on("step.change"), the three hub handlers,
\* model.on("connections.updated")
attachEvents(s) ==
    [s EXCEPT !.modelSubs = [ev \in ModelEvents |->
                 IF ev \in {"step.change", "connections.updated"} THEN @[ev] + 1 ELSE @[ev]],
              !.hubSubs = @ \cup HubCommands]

\* The function hookPlugins gives a plugin, event => this.eventHub.emit(
\* name, event), called with an event: tr with the emission appended, or a
\* TypeError when this.eventHub is not assigned yet.
pluginCallback(s, name, tr) ==
    IF s.eventHub
    THEN [trace |-> Append(tr, Ev(name, NoEl, 0)), threw |-> FALSE]
    ELSE [trace |-> tr, threw |-> TRUE]

\* hookPlugins from plugin i on: the three registration calls of each
\* plugin, in order.  Calling a method the plugin does not define throws a
\* TypeError, and so does a call the plugin makes at once of the function it
\* is given, when that throws; either ends the constructor.  The result is
\* the trace of the calls made and whether one threw.
RECURSIVE hookPluginsFrom(_, _, _)
hookPluginsFrom(s, i, tr) ==
    IF i > Len(s.plugins) THEN [trace |-> tr, threw |-> FALSE]
    ELSE IF ~s.plugins[i].rwm THEN [trace |-> tr, threw |-> TRUE]
    ELSE LET t1 == Append(tr, Ev("registerWorkflowModel", NoEl, i))
         IN  IF ~s.plugins[i].robc THEN [trace |-> t1, threw |-> TRUE]
             ELSE LET t2 == Append(t1, Ev("registerOnBeforeChange", NoEl, i))
                      b == IF s.plugins[i].early
                           THEN pluginCallback(s, "beforeChange", t2)
                           ELSE [trace |-> t2, threw |-> FALSE]
                  IN  IF b.threw \/ ~s.plugins[i].roac THEN [trace |-> b.trace, threw |-> TRUE]
                      ELSE LET t3 == Append(b.trace, Ev("registerOnAfterChange", NoEl, i))
                               a == IF s.plugins[i].early
                                    THEN pluginCallback(s, "afterChange", t3)
                                    ELSE [trace |-> t3, threw |-> FALSE]
                           IN  IF a.threw THEN a
                               ELSE hookPluginsFrom(s, i + 1, a.trace)

hookPlugins(s) == hookPluginsFrom(s, 1, <<>>)

(***************************************************************************)
(* The drag-boundary interval.                                             *)
(***************************************************************************)
Undefined == [left |-> -1, top |-> -1, width |-> -1, height |-> -1]

\* no path: the d of an edge that has none, the result of a call that
\* returns nothing
NoPath == [x1 |-> "none"]

\* the initial value of this.dragBoundaryInterval
DragBoundaryIntervalDefault ==
    [x |-> FALSE, y |-> FALSE, interval |-> 0,
     xOffset |-> RInt(0), yOffset |-> RInt(0), highlightedPort |-> NoEl]

NoDrag ==
    [on |-> FALSE, startX |-> RInt(0), startY |-> RInt(0), sx |-> 0, sy |-> 0,
     cx |-> 0, cy |-> 0, bx |-> 0, by |-> 0, mx |-> [e |-> RInt(0), f |-> RInt(0)],
     ghost |-> FALSE, highlightedPort |-> NoEl, edgeDirection |-> "right"]

Right(r) == r.left + r.width
Bottom(r) == r.top + r.height

\* adaptToScale(x) = x * (1 / this.scale)
adaptToScale(s, x) == RMul(x, RDiv(RInt(1), s.scale))

\* The loop that opens setDragBoundaryIntervalIfNecessary: halve
\* dragBoundary while the zones overlap or take half of the width or more.
\* It ends for a rectangle of positive width.
RECURSIVE ResizeDragBoundary(_, _)
ResizeDragBoundary(db, r) ==
    IF \/ RLe(RSub(RInt(Right(r)), db), RAdd(RInt(r.left), db))
       \/ RLe(RInt(Right(r)), RAdd(RInt(r.left), RMul(db, RInt(4))))
    THEN ResizeDragBoundary(RDiv(db, RInt(2)), r)
    ELSE db

\* clearInterval(handle): no effect for null or for an interval not live
clearInterval(s, handle) ==
    [s EXCEPT !.timers = {t \in @ : t.id # handle}]

\* the condition under which a new interval replaces the current one
NewBoundaryHit(dbi, b) ==
    \/ ~dbi.x /\ b.x # 0
    \/ ~dbi.y /\ b.y # 0
    \/ dbi.x /\ dbi.y /\ ~(b.x # 0 /\ b.y # 0)

\* setDragBoundaryIntervalIfNecessary without clearInterval before the new
\* interval
setDragBoundaryIntervalKeepingOld(s, b) ==
    LET s1 == [s EXCEPT !.dragBoundary =
                   ResizeDragBoundary(@, s.workflowBoundingClientRect)]
    IN  IF (b.x # 0 \/ b.y # 0) /\ NewBoundaryHit(s1.dragBoundaryInterval, b)
        THEN LET id == s1.nTimers + 1
             IN  [s1 EXCEPT !.dragBoundaryInterval.x = (b.x # 0),
                            !.dragBoundaryInterval.y = (b.y # 0),
                            !.dragBoundaryInterval.interval = id,
                            !.nTimers = id,
                            !.dragBoundaryInterval.highlightedPort =
                                IF s1.drag.ghost THEN s1.drag.highlightedPort ELSE @,
                            !.timers = @ \cup {[id |-> id, x |-> b.x, y |-> b.y,
                                                ghost |-> s1.drag.ghost]}]
        ELSE s1

\* setDragBoundaryIntervalIfNecessary(el, boundary, pathInfo, ghostIO): a
\* node drag gives pathInfo, the drag of a ghost node gives ghostIO, whose
\* highlightedPort the boundary state takes before the interval is set
setDragBoundaryIntervalIfNecessary(s, b) ==
    LET s1 == [s EXCEPT !.dragBoundary =
                   ResizeDragBoundary(@, s.workflowBoundingClientRect)]
    IN  IF (b.x # 0 \/ b.y # 0) /\ NewBoundaryHit(s1.dragBoundaryInterval, b)
        THEN LET s2 == clearInterval(s1, s1.dragBoundaryInterval.interval)
                 id == s2.nTimers + 1
             IN  [s2 EXCEPT !.dragBoundaryInterval.x = (b.x # 0),
                            !.dragBoundaryInterval.y = (b.y # 0),
                            !.dragBoundaryInterval.interval = id,
                            !.nTimers = id,
                            !.dragBoundaryInterval.highlightedPort =
                                IF s1.drag.ghost THEN s1.drag.highlightedPort ELSE @,
                            !.timers = @ \cup {[id |-> id, x |-> b.x, y |-> b.y,
                                                ghost |-> s1.drag.ghost]}]
        ELSE s1

\* the interval's callback moving the element by the step itself
IntervalCallbackUnscaled(s, t) ==
    LET moveX == RInt(t.x * dragBoundaryTranslation)
        moveY == RInt(t.y * dragBoundaryTranslation)
    IN  [s EXCEPT !.matrix.e = RSub(@, moveX),
                  !.matrix.f = RSub(@, moveY),
                  !.dragBoundaryInterval.xOffset = RAdd(@, adaptToScale(s, moveX)),
                  !.dragBoundaryInterval.yOffset = RAdd(@, adaptToScale(s, moveY)),
                  !.drag.mx = [e |-> RAdd(@.e, moveX), f |-> RAdd(@.f, moveY)]]

\* the interval's callback for the live interval t: checkIfRightBoundary and
\* the other three flags are those of the call that created the interval
IntervalCallback(s, t) ==
    LET moveX == RInt(t.x * dragBoundaryTranslation)
        moveY == RInt(t.y * dragBoundaryTranslation)
    IN  [s EXCEPT !.matrix.e = RSub(@, moveX),
                  !.matrix.f = RSub(@, moveY),
                  !.dragBoundaryInterval.xOffset = RAdd(@, adaptToScale(s, moveX)),
                  !.dragBoundaryInterval.yOffset = RAdd(@, adaptToScale(s, moveY)),
                  !.drag.mx = [e |-> RAdd(@.e, adaptToScale(s, moveX)),
                               f |-> RAdd(@.f, adaptToScale(s, moveY))]]

\* the boundary axes hit by the screen point (x, y)
BoundaryOf(s, x, y) ==
    LET r == s.workflowBoundingClientRect
        isLeftBoundary == RLt(RInt(x), RAdd(RInt(r.left), s.dragBoundary))
        isRightBoundary == RLt(RSub(RInt(Right(r)), s.dragBoundary), RInt(x))
        isTopBoundary == RLt(RInt(y), RAdd(RInt(r.top), s.dragBoundary))
        isBottomBoundary == RLt(RSub(RInt(Bottom(r)), s.dragBoundary), RInt(y))
    IN  [x |-> IF isLeftBoundary THEN -1 ELSE IF isRightBoundary THEN 1 ELSE 0,
         y |-> IF isTopBoundary THEN -1 ELSE IF isBottomBoundary THEN 1 ELSE 0]

\* getBoundaryZonesXYAxes(x, y): its effect on the engine; what it returns
\* is BoundaryOf
getBoundaryZonesXYAxes(s, x, y) ==
    LET b == BoundaryOf(s, x, y)
    IN  IF b.x = 0 /\ b.y = 0 /\ s.dragBoundaryInterval.interval # 0
        THEN [clearInterval(s, s.dragBoundaryInterval.interval)
                EXCEPT !.dragBoundaryInterval.x = FALSE,
                       !.dragBoundaryInterval.y = FALSE,
                       !.dragBoundaryInterval.interval = 0,
                       !.dragBoundaryInterval.highlightedPort = NoEl]
        ELSE s

\* getScaledDeltaXYForDrag without the accumulated offsets
getScaledDeltaXYForDragNoOffset(s, b, startX, startY, dx, dy) ==
    LET r == s.workflowBoundingClientRect
        edgeX == IF b.x = 1 THEN RSub(RInt(Right(r)), s.dragBoundary)
                 ELSE RAdd(RInt(r.left), s.dragBoundary)
        edgeY == IF b.y = 1 THEN RSub(RInt(Bottom(r)), s.dragBoundary)
                 ELSE RAdd(RInt(r.top), s.dragBoundary)
        canvasX == transformScreenCTMtoCanvas(s, edgeX, RInt(0)).x
        canvasY == transformScreenCTMtoCanvas(s, RInt(0), edgeY).y
    IN  [x |-> IF b.x # 0 THEN RSub(canvasX, startX) ELSE adaptToScale(s, RInt(dx)),
         y |-> IF b.y # 0 THEN RSub(canvasY, startY) ELSE adaptToScale(s, RInt(dy))]

\* getScaledDeltaXYForDrag(boundary, ev, startX, startY, dx, dy)
getScaledDeltaXYForDrag(s, b, startX, startY, dx, dy) ==
    LET r == s.workflowBoundingClientRect
        edgeX == IF b.x = 1 THEN RSub(RInt(Right(r)), s.dragBoundary)
                 ELSE RAdd(RInt(r.left), s.dragBoundary)
        edgeY == IF b.y = 1 THEN RSub(RInt(Bottom(r)), s.dragBoundary)
                 ELSE RAdd(RInt(r.top), s.dragBoundary)
        canvasX == transformScreenCTMtoCanvas(s, edgeX, RInt(0)).x
        canvasY == transformScreenCTMtoCanvas(s, RInt(0), edgeY).y
    IN  [x |-> IF b.x # 0 THEN RSub(canvasX, startX)
               ELSE RAdd(adaptToScale(s, RInt(dx)), s.dragBoundaryInterval.xOffset),
         y |-> IF b.y # 0 THEN RSub(canvasY, startY)
               ELSE RAdd(adaptToScale(s, RInt(dy)), s.dragBoundaryInterval.yOffset)]

\* setDragBoundaryIntervalToDefault with the offsets zeroed inside the test
\* of the interval
setDragBoundaryIntervalToDefaultIfLive(s) ==
    IF s.dragBoundaryInterval.interval # 0
    THEN [clearInterval(s, s.dragBoundaryInterval.interval)
            EXCEPT !.dragBoundaryInterval = DragBoundaryIntervalDefault]
    ELSE s

\* setDragBoundaryIntervalToDefault()
setDragBoundaryIntervalToDefault(s) ==
    LET s1 == IF s.dragBoundaryInterval.interval # 0
              THEN [clearInterval(s, s.dragBoundaryInterval.interval)
                      EXCEPT !.dragBoundaryInterval.x = FALSE,
                             !.dragBoundaryInterval.y = FALSE,
                             !.dragBoundaryInterval.interval = 0,
                             !.dragBoundaryInterval.highlightedPort = NoEl]
              ELSE s
    IN  [s1 EXCEPT !.dragBoundaryInterval.xOffset = RInt(0),
                   !.dragBoundaryInterval.yOffset = RInt(0)]

(***************************************************************************)
(* Inputs of the operations.                                               *)
(***************************************************************************)
\* scale coefficients a caller may pass: below minScale, the two limits, in
\* between, above maxScale
ScaleInputs == {Rat(1, 10), Rat(1, 5), Rat(1, 2), RInt(2), RInt(5)}
\* client points of events; NoPoint is a call without ev
Points == {[x |-> 100, y |-> 100], [x |-> 350, y |-> 40]}
NoPoint == [x |-> 0, y |-> 0]
\* ev.deltaY of wheel events
WheelDeltas == {-500, -100, 100, 600}
\* net displacements of a pan gesture
PanDeltas == {[x |-> 30, y |-> -20]}

\* the kind of the element selected when an operation begins
SelKind ==
    IF selected = {} THEN "null"
    ELSE IF \E x \in selected : x.k = "edge" THEN "edge" ELSE "node"

\* the record of the last operation: its name, its input (coef, el, at or
\* args), and what was selected when it began
Op(name, coef, el) ==
    [op |-> name, coef |-> coef, el |-> el, threw |-> FALSE, sel |-> SelKind,
     at |-> NoPoint, args |-> <<>>]

\* an operation starts with an empty trace
Begin == [State EXCEPT !.trace = <<>>, !.heard = <<>>]

Counters(v, r, n, k) ==
    /\ nViewOps' = nViewOps + v
    /\ nRenders' = nRenders + r
    /\ nNotes' = nNotes + n
    /\ nTicks' = nTicks + k

(***************************************************************************)
(* Construction.                                                           *)
(***************************************************************************)
\* new Workflow({svgRoot, model, plugins})
Construct ==
    /\ phase = "new"
    /\ LET h == hookPlugins(State)
       IN  IF h.threw
           THEN /\ phase' = "threw"
                /\ SetState([State EXCEPT !.trace = h.trace])
           ELSE /\ phase' = "ready"
                /\ SetState(renderModel(attachEvents(
                       [State EXCEPT !.trace = h.trace, !.wheel = TRUE,
                                     !.eventHub = TRUE])))
    /\ lastOp' = Op("new", RInt(0), NoEl)
    /\ Counters(0, 0, 0, 0)

\* whether plugin i has been given the function for the hub event name: every
\* plugin once the constructor is past hookPlugins, and those registered
\* before the throw when hookPlugins threw
Received(i, name) ==
    LET reg == IF name = "beforeChange" THEN "registerOnBeforeChange"
               ELSE "registerOnAfterChange"
        h == hookPlugins(State)
    IN  IF phase = "threw"
        THEN \E k \in 1..Len(h.trace) : h.trace[k] = Ev(reg, NoEl, i)
        ELSE phase \in {"ready", "destroyed"}

\* plugin i calls, after the constructor, the function it was given for name
PluginCallback(i, name) ==
    /\ i \in 1..Len(plugins)
    /\ Received(i, name)
    /\ phase' = phase
    /\ LET c == pluginCallback(State, name, <<>>)
       IN  /\ SetState([State EXCEPT !.trace = c.trace])
           /\ lastOp' = [Op("plugin." \o name, RInt(0), NoEl) EXCEPT !.threw = c.threw]
    /\ Counters(0, 0, 0, 0)

(***************************************************************************)
(* The public viewport operations and the wheel.                           *)
(***************************************************************************)
\* engine.scaleWorkflow(c, ev) and engine.scaleWorkflow(c)
ScaleWorkflow(c, p) ==
    /\ phase = "ready"
    /\ nViewOps < MaxViewOps
    /\ phase' = phase
    /\ SetState(scaleWorkflow(Begin, c, RInt(p.x), RInt(p.y)))
    /\ lastOp' = [Op("scaleWorkflow", c, NoEl) EXCEPT !.at = p]
    /\ Counters(1, 0, 0, 0)

\* scaleWorkflowCenter(scaleCoefficient) as a state transformer
scaleWorkflowCenter(s, c) ==
    LET r == s.svgRect
        s1 == [s EXCEPT !.workflowBoundingClientRect = r]
    IN  scaleWorkflow(s1, c, Rat(Right(r) + r.left, 2), Rat(r.top + Bottom(r), 2))

ScaleWorkflowCenter(c) ==
    /\ phase = "ready"
    /\ nViewOps < MaxViewOps
    /\ phase' = phase
    /\ SetState(scaleWorkflowCenter(Begin, c))
    /\ lastOp' = Op("scaleWorkflowCenter", c, NoEl)
    /\ Counters(1, 0, 0, 0)

\* the scale a wheel event asks for: this.scale + ev.deltaY / 500
WheelScale(s, deltaY) == RAdd(s.scale, Rat(deltaY, WheelDivisor))

\* the mousewheel listener of the constructor
mousewheel(s, deltaY, p) ==
    IF s.isDragging THEN s
    ELSE IF RLe(WheelScale(s, deltaY), minScale) \/ RLe(maxScale, WheelScale(s, deltaY))
         THEN s
         ELSE scaleWorkflow(s, WheelScale(s, deltaY), RInt(p.x), RInt(p.y))

MouseWheel(deltaY, p) ==
    /\ wheel
    /\ phase # "degenerate"
    /\ nViewOps < MaxViewOps
    /\ phase' = phase
    /\ SetState(mousewheel(Begin, deltaY, p))
    /\ lastOp' = Op("mousewheel", WheelScale(State, deltaY), NoEl)
    /\ Counters(1, 0, 0, 0)

\* fitToViewport() up to its check of the viewport: scaleWorkflow(1) and
\* e = f = 0
fitReset(s) ==
    [scaleWorkflow(s, RInt(1), RInt(0), RInt(0)) EXCEPT !.matrix.e = RInt(0),
                                                         !.matrix.f = RInt(0)]

\* whether fitToViewport throws
fitThrows(s) == s.svgRect.width = 0 \/ s.svgRect.height = 0

\* newScale of fitToViewport for content with the canvas box wf, whose
\* screen box after fitReset has the same width and height.  A viewport as
\* wide or high as the padding makes a divisor 0: Math.max and Math.min
\* give NaN when an argument is NaN, 1 / Infinity is 0, 1 / 0 is Infinity
\* and Math.min(Infinity, 1) is 1.
fitScale(s, wf) ==
    LET cb == s.svgRect
        verticalScale == Quot(wf.h, cb.height - padding)
        horizontalScale == Quot(wf.w, cb.width - padding)
        scaleFactor == IF verticalScale = NaN \/ horizontalScale = NaN THEN NaN
                       ELSE IF verticalScale = Infinity \/ horizontalScale = Infinity
                            THEN Infinity
                       ELSE RMax(verticalScale, horizontalScale)
    IN  IF scaleFactor = NaN THEN NaN
        ELSE IF scaleFactor = Infinity THEN RInt(0)
        ELSE IF scaleFactor.n = 0 THEN RInt(1)
        ELSE RMin(RDiv(fitReset(s).scale, scaleFactor), RInt(1))

\* whether newScale leaves no invertible finite transform: this.scale is
\* assigned it (the first statement of scaleWorkflow), and then the DOM is
\* given NaN for the matrix, or 0 for it and Infinity for the labels'
fitDegenerate(s, wf) == fitScale(s, wf) = NaN \/ fitScale(s, wf).n = 0

\* fitToViewport() past the check, for a newScale that is finite and not 0.
\* The screen box of the content under a matrix is its canvas box scaled by
\* a and moved by e, f and the svg root's corner.
fitToViewport(s, wf) ==
    LET cb == s.svgRect
        s1 == fitReset(s)
        newScale == fitScale(s, wf)
        s2 == scaleWorkflow(s1, newScale, RInt(0), RInt(0))
        sTop == RAdd(RAdd(RInt(cb.top), s2.matrix.f), RMul(s2.matrix.a, RInt(wf.y)))
        sLeft == RAdd(RAdd(RInt(cb.left), s2.matrix.e), RMul(s2.matrix.a, RInt(wf.x)))
        sHeight == RMul(s2.matrix.a, RInt(wf.h))
        sWidth == RMul(s2.matrix.a, RInt(wf.w))
        moveY == RAdd(RSub(RInt(cb.top), sTop),
                      RDiv(RAbs(RSub(RInt(cb.height), sHeight)), RInt(2)))
        moveX == RAdd(RSub(RInt(cb.left), sLeft),
                      RDiv(RAbs(RSub(RInt(cb.width), sWidth)), RInt(2)))
    IN  [s2 EXCEPT !.matrix.e = RAdd(@, moveX), !.matrix.f = RAdd(@, moveY)]

\* engine.fitToViewport().  With a degenerate newScale the engine's scale is
\* newScale; whether the DOM throws at the non-finite value it is handed, and
\* what its matrices hold afterwards, is the DOM's choice, and the engine is
\* followed no further.
FitToViewport(wf) ==
    /\ phase = "ready"
    /\ nViewOps < MaxViewOps
    /\ IF fitThrows(State)
       THEN /\ phase' = phase
            /\ SetState(fitReset(Begin))
            /\ lastOp' = [Op("fitToViewport", RInt(0), NoEl) EXCEPT !.threw = TRUE]
       ELSE IF fitDegenerate(State, wf)
       THEN /\ phase' = "degenerate"
            /\ SetState([fitReset(Begin) EXCEPT !.scale = fitScale(State, wf)])
            /\ \E th \in BOOLEAN :
                  lastOp' = [Op("fitToViewport", RInt(0), NoEl) EXCEPT !.threw = th]
       ELSE /\ phase' = phase
            /\ SetState(fitToViewport(Begin, wf))
            /\ lastOp' = Op("fitToViewport", RInt(0), NoEl)
    /\ Counters(1, 0, 0, 0)

resetTransform(s) ==
    scaleWorkflow([s EXCEPT !.matrix = Identity], RInt(1), RInt(0), RInt(0))

ResetTransform ==
    /\ phase = "ready"
    /\ nViewOps < MaxViewOps
    /\ phase' = phase
    /\ SetState(resetTransform(Begin))
    /\ lastOp' = Op("resetTransform", RInt(1), NoEl)
    /\ Counters(1, 0, 0, 0)

\* a drag of the pan handle: from start to end, e and f follow the pointer
pan(s, d) ==
    [s EXCEPT !.matrix.e = RAdd(@, RInt(d.x)), !.matrix.f = RAdd(@, RInt(d.y))]

Pan(d) ==
    /\ clickSets > 0
    /\ phase # "degenerate"
    /\ nViewOps < MaxViewOps
    /\ phase' = phase
    /\ SetState(pan(Begin, d))
    /\ lastOp' = Op("pan", RInt(0), NoEl)
    /\ Counters(1, 0, 0, 0)

\* redraw() without a new model
Redraw ==
    /\ phase = "ready"
    /\ nRenders < MaxRenders
    /\ phase' = phase
    /\ SetState(renderModel(Begin))
    /\ lastOp' = Op("redraw", RInt(0), NoEl)
    /\ Counters(0, 1, 0, 0)

(***************************************************************************)
(* Selection, deletion, manipulation switches, destroy.                    *)
(***************************************************************************)
\* A click is dispatched to the listeners of addEventListeners in the order
\* they were added: "*" (any element of the canvas), ".node", ".edge".
clickNode(s, n) == activateSelection(deselectEverything(s), NodeEl(n))

clickEdge(s, c) ==
    LET s1 == highlightEdge(deselectEverything(s), EdgeEl(c))
    IN  [s1 EXCEPT !.selected = @ \cup {EdgeEl(c)}]

clickBlank(s) == deselectEverything(s)

ClickNode(n) ==
    /\ clickSets > 0
    /\ domNodes[n] > 0
    /\ phase' = phase
    /\ SetState(clickNode(Begin, n))
    /\ lastOp' = Op("clickNode", RInt(0), NodeEl(n))
    /\ Counters(0, 0, 0, 0)

ClickEdge(c) ==
    /\ clickSets > 0
    /\ domEdges[c] > 0
    /\ phase' = phase
    /\ SetState(clickEdge(Begin, c))
    /\ lastOp' = Op("clickEdge", RInt(0), EdgeEl(c))
    /\ Counters(0, 0, 0, 0)

ClickBlank ==
    /\ clickSets > 0
    /\ phase' = phase
    /\ SetState(clickBlank(Begin))
    /\ lastOp' = Op("clickBlank", RInt(0), NoEl)
    /\ Counters(0, 0, 0, 0)

\* engine.deselectEverything()
DeselectEverything ==
    /\ phase = "ready"
    /\ phase' = phase
    /\ SetState(deselectEverything(Begin))
    /\ lastOp' = Op("deselectEverything", RInt(0), NoEl)
    /\ Counters(0, 0, 0, 0)

\* model.removeStep / removeInput / removeOutput: the node and its
\* connections leave the model; model.disconnect: the connection does
removeNode(m, n) ==
    [m EXCEPT !.nodes = @ \ {n}, !.edges = {c \in @ : c[1] # n /\ c[2] # n}]

disconnect(m, c) == [m EXCEPT !.edges = @ \ {c}]

\* the body of deleteSelection's forEach for one selected element
deleteOne(s, el) ==
    LET s1 == [s EXCEPT !.model = IF el.k = "edge" THEN disconnect(@, <<el.a, el.b>>)
                                  ELSE removeNode(@, el.a),
                        !.trace = Append(@, Ev("model.remove", el, 0))]
    IN  renderModel(s1)

\* the forEach over the elements that were selected when deleteSelection
\* began, in document order
RECURSIVE deleteEach(_, _)
deleteEach(s, els) ==
    IF els = {} THEN s
    ELSE LET el == IF \E x \in els : x.k = "edge"
                   THEN CHOOSE x \in els : x.k = "edge"
                   ELSE CHOOSE x \in els : TRUE
         IN  deleteEach(deleteOne(s, el), els \ {el})

\* deleteSelection with its last two emits exchanged
deleteSelectionAfterChangeFirst(s) ==
    IF s.selected = {} THEN s
    ELSE LET s1 == emit(s, "beforeChange", FirstSelected(s))
             s2 == deleteEach(s1, s.selected)
             s3 == emit(s2, "afterChange", FirstSelected(s))
         IN  emit(s3, "selectionChange", NoEl)

deleteSelection(s) ==
    IF s.selected = {} THEN s
    ELSE LET s1 == emit(s, "beforeChange", FirstSelected(s))
             s2 == deleteEach(s1, s.selected)
             s3 == emit(s2, "selectionChange", NoEl)
         IN  emit(s3, "afterChange", FirstSelected(s))

\* engine.deleteSelection()
DeleteSelection ==
    /\ phase = "ready"
    /\ nRenders + Cardinality(selected) <= MaxRenders
    /\ phase' = phase
    /\ SetState(deleteSelection(Begin))
    /\ lastOp' = Op("deleteSelection", RInt(0), NoEl)
    /\ Counters(0, Cardinality(selected), 0, 0)

\* keyup of Backspace on the svg: the first attached deletion listener runs
\* deleteSelection; when that renders, the render detaches the others
\* before they run, and otherwise they find nothing selected
KeyupBackspace ==
    /\ keyupLive # {}
    /\ nRenders + Cardinality(selected) <= MaxRenders
    /\ phase' = phase
    /\ SetState(deleteSelection(Begin))
    /\ lastOp' = Op("keyup", RInt(0), NoEl)
    /\ Counters(0, Cardinality(selected), 0, 0)

disableGraphManipulations(s) ==
    [s EXCEPT !.disableManipulations = TRUE,
              !.keyupLive = @ \ {s.handlersThatCanBeDisabled[i] :
                                    i \in 1..Len(s.handlersThatCanBeDisabled)}]

DisableGraphManipulations ==
    /\ phase = "ready"
    /\ phase' = phase
    /\ SetState(disableGraphManipulations(Begin))
    /\ lastOp' = Op("disableGraphManipulations", RInt(0), NoEl)
    /\ Counters(0, 0, 0, 0)

enableGraphManipulations(s) ==
    attachSelectionDeletionBehavior([s EXCEPT !.disableManipulations = FALSE])

EnableGraphManipulations ==
    /\ phase = "ready"
    /\ Len(handlersThatCanBeDisabled) < MaxHandlers
    /\ phase' = phase
    /\ SetState(enableGraphManipulations(Begin))
    /\ lastOp' = Op("enableGraphManipulations", RInt(0), NoEl)
    /\ Counters(0, 0, 0, 0)

\* destroy(): model.off is given this.onConnectionCreate, which is not the
\* function renderModel registered (that one is this.onConnectionCreate
\* .bind(this), a new function each time), so it removes no handler
destroy(s) ==
    [clearCanvas(s) EXCEPT !.hubSubs = {}]

Destroy ==
    /\ phase = "ready"
    /\ phase' = "destroyed"
    /\ SetState(destroy(Begin))
    /\ lastOp' = Op("destroy", RInt(0), NoEl)
    /\ Counters(0, 0, 0, 0)

(***************************************************************************)
(* Changes announced on the hub: setModelPosition and the create commands. *)
(***************************************************************************)
\* the object a change event carries: {type: ...}
ChangeEventData(type) == [k |-> "change", a |-> type, b |-> ""]

\* the objects setModelPosition is given: with or without customProps
PositionObjects == {[customProps |-> "undefined"], [customProps |-> "other"]}
\* the coordinates it is given
PositionCoords == {[x |-> 10, y |-> 20]}

\* setModelPosition(obj, x, y, emitEvents): the state after it and the
\* object after it.  An object without customProps gets the update as its
\* customProps and the method returns there, before afterChange.
setModelPosition(s, obj, x, y, emitEvents) ==
    LET update == [x |-> x, y |-> y]
        changeEventData == ChangeEventData("move")
        s1 == IF emitEvents THEN emit(s, "beforeChange", changeEventData) ELSE s
    IN  IF obj.customProps = "undefined"
        THEN [s |-> s1, obj |-> [customProps |-> update]]
        ELSE [s |-> IF emitEvents THEN emit(s1, "afterChange", changeEventData) ELSE s1,
              obj |-> [customProps |-> update]]

\* engine.setModelPosition(obj, x, y) and engine.setModelPosition(obj, x, y,
\* emitEvents); emitEvents is true when it is not given
SetModelPosition(obj, c, emitEvents) ==
    /\ phase = "ready"
    /\ nNotes < MaxNotes
    /\ phase' = phase
    /\ LET r == setModelPosition(Begin, obj, c.x, c.y, emitEvents)
       IN  /\ SetState(r.s)
           /\ lastOp' = [Op("setModelPosition", RInt(0), NoEl)
                            EXCEPT !.args = <<obj, emitEvents, r.obj>>]
    /\ Counters(0, 0, 1, 0)

\* the handler of app.create.step: beforeChange, the element of the step is
\* appended, scaleWorkflow(this.scale), afterChange.  A step without
\* customProps makes the read of its position throw after beforeChange.
onCreateStep(s, n, hasCustomProps) ==
    LET changeEventData == ChangeEventData("step.create")
        s1 == emit(s, "beforeChange", changeEventData)
    IN  IF ~hasCustomProps THEN [s |-> s1, threw |-> TRUE]
        ELSE LET s2 == [s1 EXCEPT !.domNodes[n] = @ + 1]
                 s3 == scaleWorkflow(s2, s2.scale, RInt(0), RInt(0))
             IN  [s |-> emit(s3, "afterChange", changeEventData), threw |-> FALSE]

\* command(event, data): eventHub.emit(event, data).  The handlers of
\* app.create.input and app.create.output give the object an out or in
\* port and issue app.create.step.
command(s, event, n, hasCustomProps) ==
    LET s1 == emit(s, event, NodeEl(n))
    IN  IF event \notin s.hubSubs THEN [s |-> s1, threw |-> FALSE]
        ELSE IF event = "app.create.step" THEN onCreateStep(s1, n, hasCustomProps)
        ELSE LET s2 == emit(s1, "app.create.step", NodeEl(n))
             IN  IF "app.create.step" \notin s.hubSubs THEN [s |-> s2, threw |-> FALSE]
                 ELSE onCreateStep(s2, n, hasCustomProps)

\* engine.command(event, data) for the three create commands
Command(event, n, hasCustomProps) ==
    /\ phase \in {"ready", "destroyed"}
    /\ nNotes < MaxNotes
    /\ phase' = phase
    /\ LET r == command(Begin, event, n, hasCustomProps)
       IN  /\ SetState(r.s)
           /\ lastOp' = [Op(event, RInt(0), NodeEl(n))
                            EXCEPT !.threw = r.threw, !.args = <<hasCustomProps>>]
    /\ Counters(0, 0, 1, 0)

(***************************************************************************)
(* Notifications of the model.  Each registered handler runs once.         *)
(***************************************************************************)
\* onInputCreate / onOutputCreate, once per registered handler: each
\* appends a node element for the new input or output
onNodeCreate(s, ev, n) ==
    [s EXCEPT !.domNodes[n] = @ + s.modelSubs[ev]]

\* onConnectionCreate, once per registered handler: each spawns an edge
onConnectionCreate(s, c) ==
    [s EXCEPT !.domEdges[c] = @ + s.modelSubs["connection.create"]]

\* redrawEdges(): the edges are rebuilt from the model's connections; an
\* edge keeps "highlighted" and no edge keeps "selected"
redrawEdges(s) ==
    [s EXCEPT !.domEdges = [c \in PossibleEdges |-> IF c \in s.model.edges THEN 1 ELSE 0],
              !.highlighted = {x \in @ : x.k = "edge" => <<x.a, x.b>> \in s.model.edges},
              !.selected = {x \in @ : x.k # "edge"}]

\* the model gains the input n and notifies "input.create"
NotifyInputCreate(n) ==
    /\ phase \in {"ready", "destroyed"}
    /\ nNotes < MaxNotes
    /\ n \in Inputs \ model.nodes
    /\ phase' = phase
    /\ SetState(onNodeCreate([Begin EXCEPT !.model.nodes = @ \cup {n}], "input.create", n))
    /\ lastOp' = Op("input.create", RInt(0), NodeEl(n))
    /\ Counters(0, 0, 1, 0)

\* the model gains the output n and notifies "output.create"
NotifyOutputCreate(n) ==
    /\ phase \in {"ready", "destroyed"}
    /\ nNotes < MaxNotes
    /\ n \in Outputs \ model.nodes
    /\ phase' = phase
    /\ SetState(onNodeCreate([Begin EXCEPT !.model.nodes = @ \cup {n}], "output.create", n))
    /\ lastOp' = Op("output.create", RInt(0), NodeEl(n))
    /\ Counters(0, 0, 1, 0)

\* the model gains the connection c and notifies "connection.create"
NotifyConnectionCreate(c) ==
    /\ phase \in {"ready", "destroyed"}
    /\ nNotes < MaxNotes
    /\ c \in PossibleEdges \ model.edges
    /\ c[1] \in model.nodes /\ c[2] \in model.nodes
    /\ phase' = phase
    /\ SetState(onConnectionCreate([Begin EXCEPT !.model.edges = @ \cup {c}], c))
    /\ lastOp' = Op("connection.create", RInt(0), EdgeEl(c))
    /\ Counters(0, 0, 1, 0)

\* the model notifies "connections.updated"
NotifyConnectionsUpdated ==
    /\ phase \in {"ready", "destroyed"}
    /\ nNotes < MaxNotes
    /\ phase' = phase
    /\ SetState(IF modelSubs["connections.updated"] > 0 THEN redrawEdges(Begin) ELSE Begin)
    /\ lastOp' = Op("connections.updated", RInt(0), NoEl)
    /\ Counters(0, 0, 1, 0)

(***************************************************************************)
(* A node drag.  The drag listeners are not part of workflow.ts; they are  *)
(* modelled from the specification of the autoscroll: on drag start the    *)
(* viewport rectangle is stored, every pointer-move asks for the boundary  *)
(* zones, sets the interval when a boundary is hit and places the node at  *)
(* its start plus the scaled delta, and the end of the drag resets the     *)
(* boundary state.                                                         *)
(***************************************************************************)
\* pointer positions: near the left edge, at the centre, near the right
\* edge of the svg root; at mid height and near its bottom edge
DragXs(r) == {r.left + 10, r.left + r.width \div 2, Right(r) - 10}
DragYs(r) == {r.top + r.height \div 2, Bottom(r) - 10}
\* where the dragged node stands on the canvas at drag start
NodeStart == [x |-> 100, y |-> 100]

dragStart(s, px, py) ==
    [s EXCEPT !.isDragging = TRUE,
              !.workflowBoundingClientRect = s.svgRect,
              !.drag = [on |-> TRUE, startX |-> RInt(NodeStart.x), startY |-> RInt(NodeStart.y),
                        sx |-> px, sy |-> py, cx |-> px, cy |-> py, bx |-> 0, by |-> 0,
                        mx |-> [e |-> RInt(NodeStart.x), f |-> RInt(NodeStart.y)],
                        ghost |-> FALSE, highlightedPort |-> NoEl,
                        edgeDirection |-> "right"]]

dragMove(s, px, py) ==
    LET b == BoundaryOf(s, px, py)
        s1 == getBoundaryZonesXYAxes(s, px, py)
        s2 == IF b.x # 0 \/ b.y # 0 THEN setDragBoundaryIntervalIfNecessary(s1, b) ELSE s1
        d == getScaledDeltaXYForDrag(s2, b, s2.drag.startX, s2.drag.startY,
                                     px - s2.drag.sx, py - s2.drag.sy)
    IN  [s2 EXCEPT !.drag.cx = px, !.drag.cy = py, !.drag.bx = b.x, !.drag.by = b.y,
                   !.drag.mx = [e |-> RAdd(s2.drag.startX, d.x),
                                f |-> RAdd(s2.drag.startY, d.y)]]

dragEnd(s) ==
    [setDragBoundaryIntervalToDefault(s) EXCEPT !.isDragging = FALSE, !.drag = NoDrag]

\* a drag starts while no interval has been created yet: a behaviour has
\* one drag that scrolls, and any number of drags before it
DragStart(px, py) ==
    /\ phase = "ready"
    /\ nTimers = 0
    /\ ~disableManipulations
    /\ ~drag.on
    /\ svgRect.width > 0
    /\ phase' = phase
    /\ SetState(dragStart(Begin, px, py))
    /\ lastOp' = Op("dragStart", RInt(0), NoEl)
    /\ Counters(0, 0, 0, 0)

DragMove(px, py) ==
    /\ drag.on
    /\ ~drag.ghost
    /\ dragMove(Begin, px, py).nTimers <= MaxTimers
    /\ phase' = phase
    /\ SetState(dragMove(Begin, px, py))
    /\ lastOp' = Op("dragMove", RInt(0), NoEl)
    /\ Counters(0, 0, 0, 0)

DragEnd ==
    /\ drag.on
    /\ ~drag.ghost
    /\ phase' = phase
    /\ SetState(dragEnd(Begin))
    /\ lastOp' = [Op("dragEnd", RInt(0), NoEl)
                     EXCEPT !.args = <<dragBoundaryInterval.interval # 0>>]
    /\ Counters(0, 0, 0, 0)

\* the browser runs the callback of a live interval
Tick(t) ==
    /\ t \in timers
    /\ ~t.ghost
    /\ nTicks < MaxTicks
    /\ phase' = phase
    /\ SetState(IntervalCallback(Begin, t))
    /\ lastOp' = Op("tick", RInt(0), NoEl)
    /\ Counters(0, 0, 0, 1)

(***************************************************************************)
(* The loop that opens setDragBoundaryIntervalIfNecessary, one test of its *)
(* condition at a time, in the viewport rectangle the drag start stored.   *)
(***************************************************************************)
\* the condition of the while loop
ResizeCondition(db, r) ==
    \/ RLe(RSub(RInt(Right(r)), db), RAdd(RInt(r.left), db))
    \/ RLe(RInt(Right(r)), RAdd(RInt(r.left), RMul(db, RInt(4))))

\* this.dragBoundary / 2 in double arithmetic: the quotient, and 0 once the
\* quotient is too small for a double
Halve(db) ==
    IF db.d >= 2 ^ MaxHalvings THEN RInt(0) ELSE RDiv(db, RInt(2))

\* the boundary arguments of a call that hit a boundary
BoundaryHits == {b \in [x : {-1, 0, 1}, y : {-1, 0, 1}] : b.x # 0 \/ b.y # 0}

\* a drag starts in an svg root of any width
DragStartAnyWidth(px, py) ==
    /\ phase = "ready"
    /\ ~disableManipulations
    /\ ~drag.on
    /\ nTimers = 0
    /\ phase' = phase
    /\ SetState(dragStart(Begin, px, py))
    /\ lastOp' = Op("dragStart", RInt(0), NoEl)
    /\ Counters(0, 0, 0, 0)

\* setDragBoundaryIntervalIfNecessary(el, boundary, pathInfo) is called and
\* reaches its loop
EnterResizeLoop(b) ==
    /\ phase = "ready"
    /\ drag.on
    /\ nTimers < MaxTimers
    /\ phase' = "resizing"
    /\ SetState(Begin)
    /\ lastOp' = [Op("setDragBoundaryIntervalIfNecessary", RInt(0), NoEl)
                     EXCEPT !.args = <<b>>]
    /\ Counters(0, 0, 0, 0)

\* one test of the loop's condition: the body when it holds, the way out
\* of the loop when it does not
ResizeLoop ==
    /\ phase = "resizing"
    /\ phase' = IF ResizeCondition(dragBoundary, workflowBoundingClientRect)
                THEN "resizing" ELSE "resized"
    /\ SetState([State EXCEPT !.dragBoundary =
                    IF ResizeCondition(@, workflowBoundingClientRect) THEN Halve(@) ELSE @])
    /\ lastOp' = lastOp
    /\ Counters(0, 0, 0, 0)

\* the rest of the method, after the loop
AfterResizeLoop ==
    /\ phase = "resized"
    /\ phase' = "ready"
    /\ SetState(setDragBoundaryIntervalIfNecessary(State, lastOp.args[1]))
    /\ lastOp' = lastOp
    /\ Counters(0, 0, 0, 0)

(***************************************************************************)
(* The ghost node of a new connection: the nearest port, the visibility of *)
(* the ghost, the path of its edge.                                        *)
(***************************************************************************)
\* the ports a new connection may end at
ConnectionPorts == {PortEl("s1", "in"), PortEl("s2", "in")}
\* the arrays of ports that may be given as connectionPorts
PortArrays ==
    {<<>>} \cup {<<p>> : p \in ConnectionPorts}
           \cup {pq \in ConnectionPorts \X ConnectionPorts : pq[1] # pq[2]}
\* what Geometry.distance may give for a port and the pointer
Distances == {40, 100, 150}
\* ghostIO.nodeToMouseDistance
MouseDistances == {100, 120, 121, 200}
\* the translate given to the ghost node
GhostCoords == {[x |-> 30, y |-> 40]}
\* the coordinates of the ends of a path
PathXs == {0, 100}
PathYs == {50}
\* the forceDirection argument: "undefined" is a call without it
Directions == {"undefined", "", "right", "left", "up"}

\* Array.prototype.sort with the comparator distance(el1) - distance(el2):
\* el goes after the entries that are not farther than it
RECURSIVE InsertByDistance(_, _, _)
InsertByDistance(sorted, el, distance) ==
    IF sorted = <<>> THEN <<el>>
    ELSE IF distance[Head(sorted)] <= distance[el]
         THEN <<Head(sorted)>> \o InsertByDistance(Tail(sorted), el, distance)
         ELSE <<el>> \o sorted

RECURSIVE SortByDistance(_, _)
SortByDistance(els, distance) ==
    IF els = <<>> THEN <<>>
    ELSE InsertByDistance(SortByDistance(SubSeq(els, 1, Len(els) - 1), distance),
                          els[Len(els)], distance)

\* getSortedConnectionPorts: the Map of each port to its distance, in
\* ascending order of distance; distance[el] is Geometry.distance of the
\* pointer and the port's origin
getSortedConnectionPorts(connectionPorts, distance) ==
    LET ordered == SortByDistance(connectionPorts, distance)
    IN  [i \in 1..Len(ordered) |-> [el |-> ordered[i], distance |-> distance[ordered[i]]]]

\* removeHighlightedPort: the port loses the class highlighted (its node
\* loses preferred-node and the direction only)
removeHighlightedPort(s, highlightedPort) ==
    IF highlightedPort # NoEl THEN [s EXCEPT !.highlighted = @ \ {highlightedPort}] ELSE s

\* setHighlightedPort with a limit that includes the distance 100
setHighlightedPortInclusive(sortedMap) ==
    IF Len(sortedMap) # 0 /\ sortedMap[1].distance <= 100 THEN sortedMap[1].el ELSE NoEl

\* the value setHighlightedPort returns: the first port of the Map when its
\* distance is below 100, undefined otherwise
setHighlightedPort(sortedMap) ==
    IF Len(sortedMap) # 0 /\ sortedMap[1].distance < 100 THEN sortedMap[1].el ELSE NoEl

\* the classes setHighlightedPort adds: highlighted to the port and to its
\* parent node
addHighlightedPort(s, highlightedPort) ==
    IF highlightedPort # NoEl
    THEN [s EXCEPT !.highlighted = @ \cup {highlightedPort, NodeEl(highlightedPort.a)}]
    ELSE s

\* the search for the port to snap to, as the interval callback makes it
\* for a ghost node
SetHighlightedPort(connectionPorts, distance) ==
    /\ phase = "ready"
    /\ phase' = phase
    /\ LET sorted == getSortedConnectionPorts(connectionPorts, distance)
           s1 == removeHighlightedPort(Begin, dragBoundaryInterval.highlightedPort)
           s2 == addHighlightedPort(s1, setHighlightedPort(sorted))
       IN  SetState([s2 EXCEPT !.dragBoundaryInterval.highlightedPort =
                                   setHighlightedPort(sorted)])
    /\ lastOp' = [Op("setHighlightedPort", RInt(0), NoEl)
                     EXCEPT !.args = <<connectionPorts, distance>>]
    /\ Counters(0, 0, 0, 0)

\* translateGhostNodeAndShowIfNecessary with a limit that includes 120
translateGhostNodeAndShowFrom(s, nodeToMouseDistance, isCloseToPort, newCoords) ==
    [s EXCEPT !.ghostIO.hidden = ~(nodeToMouseDistance >= 120 /\ ~isCloseToPort),
              !.ghostIO.x = newCoords.x,
              !.ghostIO.y = newCoords.y]

\* translateGhostNodeAndShowIfNecessary: hidden is added, and removed when
\* the distance is above 120 and no port is close
translateGhostNodeAndShowIfNecessary(s, nodeToMouseDistance, isCloseToPort, newCoords) ==
    LET s1 == [s EXCEPT !.ghostIO.hidden = TRUE]
        s2 == IF nodeToMouseDistance > 120 /\ ~isCloseToPort
              THEN [s1 EXCEPT !.ghostIO.hidden = FALSE] ELSE s1
    IN  [s2 EXCEPT !.ghostIO.x = newCoords.x, !.ghostIO.y = newCoords.y]

\* the call of the interval callback: isCloseToPort is
\* dragBoundaryInterval.highlightedPort !== undefined
TranslateGhostNodeAndShowIfNecessary(nodeToMouseDistance, newCoords) ==
    /\ phase = "ready"
    /\ phase' = phase
    /\ SetState(translateGhostNodeAndShowIfNecessary(Begin, nodeToMouseDistance,
                    dragBoundaryInterval.highlightedPort # NoEl, newCoords))
    /\ lastOp' = [Op("translateGhostNodeAndShowIfNecessary", RInt(0), NoEl)
                     EXCEPT !.args = <<nodeToMouseDistance,
                                       dragBoundaryInterval.highlightedPort # NoEl,
                                       ghostIO.hidden>>]
    /\ Counters(0, 0, 0, 0)

\* the numbers of the path "M x1 y1 C c1x c1y c2x c2y x2 y2"
Path(x1, y1, c1x, c1y, c2x, c2y, x2, y2) ==
    [x1 |-> RInt(x1), y1 |-> RInt(y1), c1x |-> c1x, c1y |-> RInt(c1y),
     c2x |-> c2x, c2y |-> RInt(c2y), x2 |-> RInt(x2), y2 |-> RInt(y2)]

\* Workflow.makeConnectionPath(x1, y1, x2, y2, forceDirection = "right"): a
\* call without the argument takes the default; the empty string is the
\* falsy direction; a direction that is none of these returns nothing
makeConnectionPath(x1, y1, x2, y2, forceDirection) ==
    LET direction == IF forceDirection = "undefined" THEN "right" ELSE forceDirection
    IN  IF direction = ""
        THEN Path(x1, y1, Rat(x1 + x2, 2), y1, Rat(x1 + x2, 2), y2, x2, y2)
        ELSE IF direction = "right"
        THEN Path(x1, y1, RAdd(RInt(x1), Rat(Abs(x1 - x2), 2)), y1,
                  RSub(RInt(x2), Rat(Abs(x1 - x2), 2)), y2, x2, y2)
        ELSE IF direction = "left"
        THEN Path(x1, y1, RSub(RInt(x1), Rat(Abs(x1 - x2), 2)), y1,
                  RAdd(RInt(x2), Rat(Abs(x1 - x2), 2)), y2, x2, y2)
        ELSE NoPath

\* the path of the ghost edge is set to the result
MakeConnectionPath(x1, y1, x2, y2, forceDirection) ==
    /\ phase = "ready"
    /\ phase' = phase
    /\ SetState([Begin EXCEPT !.ghostIO.d =
                                  makeConnectionPath(x1, y1, x2, y2, forceDirection)])
    /\ lastOp' = [Op("makeConnectionPath", RInt(0), NoEl)
                     EXCEPT !.args = <<x1, y1, x2, y2, forceDirection>>]
    /\ Counters(0, 0, 0, 0)

(***************************************************************************)
(* The drag of a ghost node from a port.  Its listeners are not part of    *)
(* workflow.ts; they are modelled from the specification: the candidate    *)
(* ports are ranked again on every pointer-move and the snap highlight and *)
(* the ghost follow, with the same engine methods the interval callback    *)
(* uses.  The listener keeps the port it highlighted and hands it to       *)
(* setDragBoundaryIntervalIfNecessary as ghostIO.highlightedPort.          *)
(***************************************************************************)
\* the array of candidate ports of the drag
GhostConnectionPorts == <<PortEl("s1", "in"), PortEl("s2", "in")>>
\* the distances of the candidate ports that a pointer position may give
GhostDistances == [ConnectionPorts -> {40, 150}]
\* the origin of the ghost edge
GhostOrigin == [x |-> 0, y |-> 50]

\* What follows the placement of the ghost node at (mx.e, mx.f), in the
\* interval callback (hp is dragBoundaryInterval.highlightedPort) and in
\* the pointer-move listener: the path of the ghost edge, the ranking of
\* the ports, the snap highlight, the visibility of the ghost.  The result
\* is the state and the port now highlighted.
followGhost(s, hp, distance, nodeToMouseDistance) ==
    LET d == makeConnectionPath(GhostOrigin.x, GhostOrigin.y,
                                s.drag.mx.e.n \div s.drag.mx.e.d,
                                s.drag.mx.f.n \div s.drag.mx.f.d, s.drag.edgeDirection)
        s1 == [s EXCEPT !.ghostIO.d = d]
        sorted == getSortedConnectionPorts(GhostConnectionPorts, distance)
        s2 == removeHighlightedPort(s1, hp)
        new == setHighlightedPort(sorted)
        s3 == addHighlightedPort(s2, new)
    IN  [s |-> translateGhostNodeAndShowIfNecessary(s3, nodeToMouseDistance, new # NoEl,
                   [x |-> s.drag.mx.e, y |-> s.drag.mx.f]),
         highlightedPort |-> new]

\* the interval callback of a ghost drag: the translation of the viewport
\* and of the ghost node, then the else-if (ghostIO) branch
IntervalCallbackGhost(s, t, distance, nodeToMouseDistance) ==
    LET s1 == IntervalCallback(s, t)
        r == followGhost(s1, s1.dragBoundaryInterval.highlightedPort, distance,
                         nodeToMouseDistance)
    IN  [r.s EXCEPT !.dragBoundaryInterval.highlightedPort = r.highlightedPort]

dragStartGhost(s, px, py, edgeDirection) ==
    [dragStart(s, px, py) EXCEPT !.drag.ghost = TRUE, !.drag.edgeDirection = edgeDirection]

dragMoveGhost(s, px, py, distance, nodeToMouseDistance) ==
    LET s1 == dragMove(s, px, py)
        r == followGhost(s1, s1.drag.highlightedPort, distance, nodeToMouseDistance)
    IN  [r.s EXCEPT !.drag.highlightedPort = r.highlightedPort]

dragEndGhost(s) ==
    [dragEnd(removeHighlightedPort(s, s.drag.highlightedPort)) EXCEPT !.ghostIO.hidden = TRUE]

DragStartGhost(px, py, edgeDirection) ==
    /\ phase = "ready"
    /\ ~disableManipulations
    /\ ~drag.on
    /\ svgRect.width > 0
    /\ phase' = phase
    /\ SetState(dragStartGhost(Begin, px, py, edgeDirection))
    /\ lastOp' = Op("dragStartGhost", RInt(0), NoEl)
    /\ Counters(0, 0, 0, 0)

DragMoveGhost(px, py, distance, nodeToMouseDistance) ==
    /\ drag.on
    /\ drag.ghost
    /\ dragMove(Begin, px, py).nTimers <= MaxTimers
    /\ phase' = phase
    /\ SetState(dragMoveGhost(Begin, px, py, distance, nodeToMouseDistance))
    /\ lastOp' = [Op("dragMoveGhost", RInt(0), NoEl)
                     EXCEPT !.args = <<distance, dragBoundaryInterval.highlightedPort>>]
    /\ Counters(0, 0, 0, 0)

DragEndGhost ==
    /\ drag.on
    /\ drag.ghost
    /\ phase' = phase
    /\ SetState(dragEndGhost(Begin))
    /\ lastOp' = Op("dragEndGhost", RInt(0), NoEl)
    /\ Counters(0, 0, 0, 0)

\* the browser runs the callback of a live interval of a ghost drag; the
\* coordinates of the ghost are whole numbers while the scale is 1
TickGhost(t, distance, nodeToMouseDistance) ==
    /\ t \in timers
    /\ t.ghost
    /\ scale = RInt(1)
    /\ nTicks < MaxTicks
    /\ phase' = phase
    /\ SetState(IntervalCallbackGhost(Begin, t, distance, nodeToMouseDistance))
    /\ lastOp' = [Op("tickGhost", RInt(0), NoEl) EXCEPT !.args = <<distance>>]
    /\ Counters(0, 0, 0, 1)

(***************************************************************************)
(* Initial states and specifications.                                      *)
(***************************************************************************)
FullModel ==
    [nodes |-> Nodes, edges |-> {<<"i1", "s1">>, <<"s1", "s2">>, <<"s2", "o1">>},
     arrange |-> FALSE]

\* the models an engine may be constructed with
Models ==
    {[nodes |-> ns, edges |-> es, arrange |-> ar] :
        ns \in {Nodes, Nodes \ {"i1"}},
        es \in {{<<"i1", "s1">>, <<"s1", "s2">>, <<"s2", "o1">>},
                {<<"s1", "s2">>, <<"s1", "o1">>}, {}},
        ar \in BOOLEAN}

WellFormed(m) == \A c \in m.edges : c[1] \in m.nodes /\ c[2] \in m.nodes

\* a plugin with the three registration methods, with or without afterRender
Registering(ar) ==
    [rwm |-> TRUE, robc |-> TRUE, roac |-> TRUE, ar |-> ar, early |-> FALSE]

\* the state before the constructor runs, for the given arguments
InitWith(ps, r, m) ==
    /\ phase = "new"
    /\ plugins = ps
    /\ svgRect = r
    /\ scale = RInt(1)
    /\ matrix = Identity
    /\ labelScale = RInt(1)
    /\ model = m
    /\ domNodes = [n \in Nodes |-> 0]
    /\ domEdges = [c \in PossibleEdges |-> 0]
    /\ selected = {}
    /\ highlighted = {}
    /\ hasSelection = FALSE
    /\ modelSubs = [ev \in ModelEvents |-> 0]
    /\ eventHub = FALSE
    /\ hubSubs = {}
    /\ wheel = FALSE
    /\ clickSets = 0
    /\ keyupLive = {}
    /\ handlersThatCanBeDisabled = <<>>
    /\ disableManipulations = FALSE
    /\ isDragging = FALSE
    /\ dragBoundary = RInt(dragBoundaryDefault)
    /\ dragBoundaryInterval = DragBoundaryIntervalDefault
    /\ workflowBoundingClientRect = Undefined
    /\ timers = {}
    /\ nTimers = 0
    /\ drag = NoDrag
    /\ ghostIO = [hidden |-> TRUE, x |-> 0, y |-> 0, d |-> NoPath]
    /\ trace = <<>>
    /\ heard = <<>>
    /\ lastOp = Op("none", RInt(0), NoEl)
    /\ nViewOps = 0
    /\ nRenders = 0
    /\ nNotes = 0
    /\ nTicks = 0

\* The viewport: every operation that sets the scale or the pan offset.
InitViewport == \E r \in SvgRects : InitWith(<<>>, r, FullModel)

NextViewport ==
    \/ Construct
    \/ \E c \in ScaleInputs, p \in Points \cup {NoPoint} : ScaleWorkflow(c, p)
    \/ \E c \in ScaleInputs : ScaleWorkflowCenter(c)
    \/ \E d \in WheelDeltas, p \in Points : MouseWheel(d, p)
    \/ \E wf \in ContentBoxes : FitToViewport(wf)
    \/ ResetTransform
    \/ \E d \in PanDeltas : Pan(d)
    \/ Redraw

SpecViewport == InitViewport /\ [][NextViewport]_vars

\* Selection: clicks, deselection, deletion, re-renders and the model's
\* notifications, over every model.
DefaultRect == [left |-> 0, top |-> 0, width |-> 400, height |-> 300]

InitSelection ==
    \E m \in {x \in Models : WellFormed(x)} : InitWith(<<>>, DefaultRect, m)

NextSelection ==
    \/ Construct
    \/ \E n \in Nodes : ClickNode(n)
    \/ \E c \in PossibleEdges : ClickEdge(c)
    \/ ClickBlank
    \/ DeselectEverything
    \/ DeleteSelection
    \/ KeyupBackspace
    \/ Redraw
    \/ \E n \in Inputs : NotifyInputCreate(n)
    \/ \E n \in Outputs : NotifyOutputCreate(n)
    \/ \E c \in PossibleEdges : NotifyConnectionCreate(c)
    \/ NotifyConnectionsUpdated

SpecSelection == InitSelection /\ [][NextSelection]_vars

\* The ghost node: every array of ports with every distance, every
\* distance of the pointer from the node, every pair of path ends with
\* every direction.
NextConnect ==
    \/ Construct
    \/ \E ports \in PortArrays, distance \in [ConnectionPorts -> Distances] :
          SetHighlightedPort(ports, distance)
    \/ \E dist \in MouseDistances, c \in GhostCoords :
          TranslateGhostNodeAndShowIfNecessary(dist, c)
    \/ \E x1 \in PathXs, x2 \in PathXs, y1 \in PathYs, y2 \in PathYs, dir \in Directions :
          MakeConnectionPath(x1, y1, x2, y2, dir)

InitConnect == InitWith(<<>>, DefaultRect, FullModel)

SpecConnect == InitConnect /\ [][NextConnect]_vars

\* Plugins: engines constructed with every list of up to MaxPlugins
\* plugins, each defining any subset of the four methods.
RECURSIVE SeqsUpTo(_, _)
SeqsUpTo(S, n) ==
    IF n = 0 THEN {<<>>}
    ELSE SeqsUpTo(S, n - 1) \cup
         {Append(q, x) : q \in {r \in SeqsUpTo(S, n - 1) : Len(r) = n - 1}, x \in S}

InitPlugins ==
    \E ps \in SeqsUpTo(PluginKinds, MaxPlugins) : InitWith(ps, DefaultRect, FullModel)

NextPlugins ==
    \/ Construct
    \/ Redraw
    \/ \E n \in Nodes : ClickNode(n)
    \/ \E c \in PossibleEdges : ClickEdge(c)
    \/ DeleteSelection

SpecPlugins == InitPlugins /\ [][NextPlugins]_vars

\* Hooks: plugins that define the three registration methods, the calls
\* they make of the functions they are given, and the engine's own changes.
InitHooks ==
    \E ps \in SeqsUpTo(HookedPluginKinds, MaxPlugins) :
        InitWith(ps, DefaultRect, FullModel)

NextHooks ==
    \/ Construct
    \/ \E i \in 1..MaxPlugins, name \in {"beforeChange", "afterChange"} :
          PluginCallback(i, name)
    \/ Redraw
    \/ \E n \in Nodes : ClickNode(n)
    \/ DeleteSelection
    \/ Destroy

SpecHooks == InitHooks /\ [][NextHooks]_vars

\* The life of an engine: renders, destroy, and what the model and the DOM
\* send before and after it.
InitLifecycle ==
    \E m \in {x \in Models : WellFormed(x) /\ ~x.arrange} :
        InitWith(<<Registering(TRUE)>>, DefaultRect, m)

NextLifecycle ==
    \/ Construct
    \/ Redraw
    \/ \E n \in Nodes : ClickNode(n)
    \/ DeleteSelection
    \/ KeyupBackspace
    \/ ClickBlank
    \/ MouseWheel(100, NoPoint)
    \/ \E n \in Inputs : NotifyInputCreate(n)
    \/ \E n \in Outputs : NotifyOutputCreate(n)
    \/ \E c \in PossibleEdges : NotifyConnectionCreate(c)
    \/ NotifyConnectionsUpdated
    \/ Destroy

SpecLifecycle == InitLifecycle /\ [][NextLifecycle]_vars

\* A node drag with the interval's ticks, at scale 1 and 1/2, and
\* disableGraphManipulations called at any moment.
InitDrag ==
    InitWith(<<>>, DefaultRect, FullModel)

NextDrag ==
    \/ Construct
    \/ ScaleWorkflowCenter(Rat(1, 2))
    \/ \E px \in {svgRect.left + svgRect.width \div 2, Right(svgRect) - 10} :
          DragStart(px, svgRect.top + svgRect.height \div 2)
    \/ \E px \in DragXs(svgRect), py \in DragYs(svgRect) : DragMove(px, py)
    \/ DragEnd
    \/ \E t \in timers : Tick(t)
    \/ DisableGraphManipulations

SpecDrag == InitDrag /\ [][NextDrag]_vars

\* Re-renders of a scaled and panned workflow with a selection, for a model
\* with every position set and for one that lacks a position.
InitRedraw ==
    \E ar \in BOOLEAN : InitWith(<<>>, DefaultRect, [FullModel EXCEPT !.arrange = ar])

NextRedraw ==
    \/ Construct
    \/ \E c \in {Rat(1, 2), RInt(2)}, p \in Points : ScaleWorkflow(c, p)
    \/ \E d \in PanDeltas : Pan(d)
    \/ \E n \in Nodes : ClickNode(n)
    \/ \E c \in PossibleEdges : ClickEdge(c)
    \/ Redraw
    \/ DeleteSelection

SpecRedraw == InitRedraw /\ [][NextRedraw]_vars

\* The boundary zones of a node drag in svg roots of several sizes: the
\* default one, a narrow one and a low one.
InitChange == InitWith(<<>>, DefaultRect, FullModel)

NextChange ==
    \/ Construct
    \/ \E n \in Nodes : ClickNode(n)
    \/ \E c \in PossibleEdges : ClickEdge(c)
    \/ DeleteSelection
    \/ \E obj \in PositionObjects, c \in PositionCoords, emitEvents \in BOOLEAN :
          SetModelPosition(obj, c, emitEvents)
    \/ \E event \in HubCommands, n \in Nodes, hasCustomProps \in BOOLEAN :
          Command(event, n, hasCustomProps)
    \/ Destroy

SpecChange == InitChange /\ [][NextChange]_vars

\* The drag of a ghost node at scale 1, with the interval's ticks.
InitGhostDrag == InitWith(<<>>, DefaultRect, FullModel)

NextGhostDrag ==
    \/ Construct
    \/ DragStartGhost(svgRect.left + svgRect.width \div 2,
                      svgRect.top + svgRect.height \div 2, "right")
    \/ \E px \in DragXs(svgRect), distance \in GhostDistances :
          DragMoveGhost(px, svgRect.top + svgRect.height \div 2, distance, 200)
    \/ \E t \in timers, distance \in GhostDistances : TickGhost(t, distance, 200)
    \/ DragEndGhost

SpecGhostDrag == InitGhostDrag /\ [][NextGhostDrag]_vars

BoundaryRects ==
    {DefaultRect,
     [left |-> 0, top |-> 0, width |-> 120, height |-> 300],
     [left |-> 0, top |-> 0, width |-> 400, height |-> 80]}

InitBoundary == \E r \in BoundaryRects : InitWith(<<>>, r, FullModel)

NextBoundary ==
    \/ Construct
    \/ DragStart(svgRect.left + svgRect.width \div 2, svgRect.top + svgRect.height \div 2)
    \/ \E px \in DragXs(svgRect), py \in DragYs(svgRect) : DragMove(px, py)
    \/ \E t \in timers : Tick(t)
    \/ DragEnd

SpecBoundary == InitBoundary /\ [][NextBoundary]_vars

\* Calls of setDragBoundaryIntervalIfNecessary during a drag, in svg roots
\* of several widths, one of them collapsed to width 0.  Nothing else runs
\* while the loop runs, and the loop is never left waiting.
ResizeRects ==
    {DefaultRect,
     [left |-> 0, top |-> 0, width |-> 120, height |-> 300],
     [left |-> 10, top |-> 20, width |-> 40, height |-> 300],
     [left |-> 0, top |-> 0, width |-> 0, height |-> 300]}

InitResize == \E r \in ResizeRects : InitWith(<<>>, r, FullModel)

NextResize ==
    \/ Construct
    \/ DragStartAnyWidth(svgRect.left + svgRect.width \div 2,
                         svgRect.top + svgRect.height \div 2)
    \/ \E b \in BoundaryHits : EnterResizeLoop(b)
    \/ ResizeLoop
    \/ AfterResizeLoop
    \/ (phase = "ready" /\ \E t \in timers : Tick(t))
    \/ (phase = "ready" /\ DragEnd)

SpecResize == InitResize /\ [][NextResize]_vars /\ WF_vars(ResizeLoop)

(***************************************************************************)
(* Properties.                                                             *)
(***************************************************************************)
InRange(c) == RLe(minScale, c) /\ RLe(c, maxScale)

\* C1: in every state reachable by the public viewport operations, the
\* wheel and re-renders, minScale <= scale <= maxScale.
C1_ScaleWithinLimits == phase = "ready" => InRange(scale)

\* C2: a scale request outside [minScale, maxScale], made through
\* scaleWorkflow, scaleWorkflowCenter or the wheel, leaves the scale and
\* the pan offset as they were.
C2_OutOfRangeRejected ==
    [][(/\ lastOp'.op \in {"scaleWorkflow", "scaleWorkflowCenter", "mousewheel"}
        /\ ~InRange(lastOp'.coef))
       => (scale' = scale /\ matrix' = matrix)]_vars

\* whether the element is a node or a connection of the model
InModel(el) ==
    IF el.k = "edge" THEN <<el.a, el.b>> \in model.edges ELSE el.a \in model.nodes

\* C3: a deleteSelection call with nothing selected leaves an empty trace
\* (no event, no model removal); with one element selected its trace is
\* beforeChange, the model removal, the re-render, selectionChange(none),
\* afterChange, in that order and with no other engine event.
C3_DeleteSelectionTrace ==
    lastOp.op = "deleteSelection" =>
        IF lastOp.sel = "null" THEN trace = <<>>
        ELSE LET el == trace[1].el
                 last == Len(trace)
             IN  /\ last >= 5
                 /\ trace[1] = Ev("beforeChange", el, 0)
                 /\ el.k = lastOp.sel
                 /\ trace[2] = Ev("model.remove", el, 0)
                 /\ trace[3] = Ev("render", NoEl, 0)
                 /\ \A i \in 4..(last - 2) : trace[i].ev = "afterRender"
                 /\ trace[last - 1] = Ev("selectionChange", NoEl, 0)
                 /\ trace[last] = Ev("afterChange", el, 0)
                 /\ ~InModel(el)

\* a deleteSelection call has deleted the selected connection
C3_EdgeDeleted ==
    /\ lastOp.op = "deleteSelection"
    /\ lastOp.sel = "edge"
    /\ Len(trace) = 5
    /\ trace[2].ev = "model.remove"

\* C4: over clicks on nodes, connections and the empty canvas,
\* deselectEverything, deleteSelection and re-renders, at most one element
\* carries the selected class.
C4_AtMostOneSelected == Cardinality(selected) <= 1

\* a click on a connection while a node was selected: the connection is
\* the one selected element
C4_SelectionMoved ==
    /\ lastOp.op = "clickEdge"
    /\ lastOp.sel = "node"
    /\ selected = {lastOp.el}

\* C5: deselectEverything, called while a node is selected, leaves no
\* element highlighted, no element selected, and the canvas without the
\* has-selection class.
C5_ClearAfterSelectNode ==
    (lastOp.op = "deselectEverything" /\ lastOp.sel = "node")
        => (highlighted = {} /\ selected = {} /\ ~hasSelection)

\* deselectEverything has run on a selected node that has connections
C5_NodeCleared ==
    /\ lastOp.op = "deselectEverything"
    /\ lastOp.sel = "node"
    /\ model = FullModel
    /\ trace = <<Ev("selectionChange", NoEl, 0)>>

\* C6: while the last pointer-move of a node drag put the cursor in the
\* zone of the right edge, every tick of the interval lowers the viewport's
\* translateX by dragBoundaryTranslation; and a pointer-move that puts the
\* cursor in the interior leaves no live interval.
C6_RightZoneScrolls ==
    [][/\ (lastOp'.op = "tick" /\ drag.on /\ drag.bx = 1)
            => matrix'.e = RSub(matrix.e, RInt(dragBoundaryTranslation))
       /\ (lastOp'.op = "dragMove" /\ drag'.bx = 0 /\ drag'.by = 0)
            => timers' = {}]_vars

\* C7: disableGraphManipulations, called during a drag whose interval is
\* live, returns with the interval cleared and the boundary state at its
\* defaults.
C7_DisableCancelsInterval ==
    [][(lastOp'.op = "disableGraphManipulations" /\ drag.on /\ timers # {})
          => (timers' = {} /\ dragBoundaryInterval' = DragBoundaryIntervalDefault)]_vars

\* C8: after destroy no handler of the engine is attached: the event hub
\* has no subscription, the model has no handler of the engine for any of
\* its notifications, and the svg root has no wheel, click or key listener.
C8_DestroyDetachesAll ==
    phase = "destroyed" =>
        /\ hubSubs = {}
        /\ \A ev \in ModelEvents : modelSubs[ev] = 0
        /\ ~wheel
        /\ clickSets = 0
        /\ keyupLive = {}

\* C9: the constructor attaches every plugin without error, whichever of
\* the four methods the plugin defines.
C9_PluginMethodsOptional == lastOp.op = "new" => phase = "ready"

\* the afterRender calls the engine's plugins are due after one render
ExpectedAfterRender ==
    SelectSeq([i \in 1..Len(plugins) |-> Ev("afterRender", NoEl, i)],
              LAMBDA e : plugins[e.i].ar)

\* the index of the first render after position k of the trace, or the
\* position after its end
NextRender(k) ==
    IF \E j \in (k + 1)..Len(trace) : trace[j].ev = "render"
    THEN CHOOSE j \in (k + 1)..Len(trace) :
            /\ trace[j].ev = "render"
            /\ \A m \in (k + 1)..(j - 1) : trace[m].ev # "render"
    ELSE Len(trace) + 1

\* C10: every render of an operation is followed, before the next render,
\* by exactly one afterRender call on each plugin that defines it, in the
\* order of registration, and by none on a plugin that does not; and no
\* afterRender call is made without a render.
C10_AfterRenderOncePerRender ==
    /\ \A k \in 1..Len(trace) :
          trace[k].ev = "render" =>
              SelectSeq(SubSeq(trace, k + 1, NextRender(k) - 1),
                        LAMBDA e : e.ev = "afterRender") = ExpectedAfterRender
    /\ \A k \in 1..Len(trace) :
          trace[k].ev = "afterRender" => \E j \in 1..(k - 1) : trace[j].ev = "render"

\* a deletion has re-rendered for two plugins of which only the second
\* defines afterRender
C10_SecondPluginCalled ==
    /\ lastOp.op = "deleteSelection"
    /\ Len(plugins) = 2
    /\ ~plugins[1].ar
    /\ plugins[2].ar
    /\ \E k \in 1..Len(trace) : trace[k] = Ev("afterRender", NoEl, 2)

\* how many entries of the trace are the event or call named, of plugin i
\* (0 for an emission of the hub)
CountOf(name, i) ==
    Cardinality({k \in 1..Len(trace) : trace[k] = Ev(name, NoEl, i)})

\* C11: the constructor calls registerWorkflowModel once on every plugin;
\* every call a plugin makes of the function it was given, during the
\* registration calls or later, is one emission of beforeChange
\* (afterChange) on the hub.
C11_HooksReemit ==
    /\ lastOp.op = "new" =>
          /\ \A i \in 1..Len(plugins) : CountOf("registerWorkflowModel", i) = 1
          /\ \A name \in {"beforeChange", "afterChange"} :
                CountOf(name, 0) = Cardinality({i \in 1..Len(plugins) : plugins[i].early})
    /\ \A name \in {"beforeChange", "afterChange"} :
          lastOp.op = "plugin." \o name =>
              (~lastOp.threw /\ trace = <<Ev(name, NoEl, 0)>>)

\* C12: for every content box and every viewport of non-zero width and
\* height, the scale fitToViewport leaves is at most 1.
C12_FitNeverUpscales ==
    (lastOp.op = "fitToViewport" /\ svgRect.width # 0 /\ svgRect.height # 0)
        => RLe(scale, RInt(1))

\* C13: fitToViewport throws when the viewport has zero width or zero
\* height, and only then.
C13_FitThrowsOnEmptyViewport ==
    lastOp.op = "fitToViewport" =>
        (lastOp.threw <=> (svgRect.width = 0 \/ svgRect.height = 0))

\* C14: scaleWorkflow(factor, p) with a factor within the limits keeps the
\* pivot fixed: the canvas point that transformScreenCTMtoCanvas gives for
\* the screen point p is the same after the call as before it, whatever the
\* pan and scale were.
C14_PivotInvariant ==
    [][(lastOp'.op = "scaleWorkflow" /\ InRange(lastOp'.coef))
       => transformScreenCTMtoCanvas(State', RInt(lastOp'.at.x), RInt(lastOp'.at.y))
          = transformScreenCTMtoCanvas(State, RInt(lastOp'.at.x), RInt(lastOp'.at.y))]_vars

\* a rescaling about a point away from the origin, which moves the offset
C14_ScaledAboutPoint ==
    /\ lastOp.op = "scaleWorkflow"
    /\ lastOp.at = [x |-> 350, y |-> 40]
    /\ scale = Rat(1, 2)
    /\ matrix.e # RInt(0)
    /\ svgRect.left = 10

\* the last entry of the trace is the emission of selectionChange with el
EndsWithSelectionChange(el) ==
    trace # <<>> /\ trace[Len(trace)] = Ev("selectionChange", el, 0)

\* C15: after a click on node n, whatever was selected before, n is the one
\* selected element, the highlighted elements are exactly the edges of the
\* canvas with n as source or destination and the nodes at the ends of
\* those edges, and selectionChange was emitted with n.
C15_SelectNodeHighlights ==
    lastOp.op = "clickNode" =>
        LET n == lastOp.el.a
            near == {c \in PossibleEdges : domEdges[c] > 0 /\ (c[1] = n \/ c[2] = n)}
        IN  /\ selected = {lastOp.el}
            /\ highlighted = {EdgeEl(c) : c \in near}
                                \cup {NodeEl(c[1]) : c \in near}
                                \cup {NodeEl(c[2]) : c \in near}
            /\ EndsWithSelectionChange(lastOp.el)

\* a node with an edge on either side selected while an edge was selected
C15_NodeAfterEdge ==
    /\ lastOp.op = "clickNode"
    /\ lastOp.sel = "edge"
    /\ lastOp.el = NodeEl("s1")
    /\ EdgeEl(<<"i1", "s1">>) \in highlighted
    /\ EdgeEl(<<"s1", "s2">>) \in highlighted

\* C16: after a click on edge e, whatever was selected before, e is the one
\* selected element, the highlighted elements are exactly the output port
\* at e's source and the input port at e's destination, and selectionChange
\* was emitted with e.
C16_SelectEdgeHighlights ==
    lastOp.op = "clickEdge" =>
        /\ selected = {lastOp.el}
        /\ highlighted = {PortEl(lastOp.el.a, "out"), PortEl(lastOp.el.b, "in")}
        /\ EndsWithSelectionChange(lastOp.el)

\* an edge selected while a node was selected
C16_EdgeAfterNode ==
    /\ lastOp.op = "clickEdge"
    /\ lastOp.sel = "node"
    /\ lastOp.el = EdgeEl(<<"s1", "s2">>)
    /\ PortEl("s1", "out") \in highlighted

\* the least distance of the ports of the array
NearestDistance(ports, distance) ==
    CHOOSE d \in {distance[ports[i]] : i \in 1..Len(ports)} :
        \A i \in 1..Len(ports) : d <= distance[ports[i]]

\* C17: the port returned for an array of candidate ports is a nearest one
\* when the least distance is below 100, and no port when the least
\* distance is 100 or more or the array is empty.
C17_SnapTargetNearestBelow100 ==
    lastOp.op = "setHighlightedPort" =>
        LET ports == lastOp.args[1]
            distance == lastOp.args[2]
            port == dragBoundaryInterval.highlightedPort
        IN  IF ports # <<>> /\ NearestDistance(ports, distance) < 100
            THEN /\ \E i \in 1..Len(ports) : ports[i] = port
                 /\ distance[port] = NearestDistance(ports, distance)
            ELSE port = NoEl

\* the nearer of two ports returned, the farther one first in the array
C17_NearestOfTwo ==
    /\ lastOp.op = "setHighlightedPort"
    /\ Len(lastOp.args[1]) = 2
    /\ lastOp.args[2][lastOp.args[1][1]] = 150
    /\ lastOp.args[2][lastOp.args[1][2]] = 40
    /\ dragBoundaryInterval.highlightedPort = lastOp.args[1][2]

C19_PathControlPoints ==
    lastOp.op = "makeConnectionPath" =>
        LET x1 == lastOp.args[1]
            x2 == lastOp.args[3]
            forceDirection == lastOp.args[5]
            half == Rat(Abs(x1 - x2), 2)
        IN  /\ forceDirection = "undefined" =>
                  (ghostIO.d.c1x = Rat(x1 + x2, 2) /\ ghostIO.d.c2x = Rat(x1 + x2, 2))
            /\ forceDirection = "right" =>
                  /\ ghostIO.d.c1x = RAdd(RInt(x1), half)
                  /\ ghostIO.d.c2x = RSub(RInt(x2), half)
            /\ forceDirection = "left" =>
                  /\ ghostIO.d.c1x = RSub(RInt(x1), half)
                  /\ ghostIO.d.c2x = RAdd(RInt(x2), half)

\* C20: one notification input.create, output.create or connection.create
\* of the model adds at most one element for the new node or connection to
\* the canvas, however many times the model has been rendered before.
C20_CreateMaterializesAtMostOnce ==
    [][/\ lastOp'.op \in {"input.create", "output.create"} =>
            domNodes'[lastOp'.el.a] <= domNodes[lastOp'.el.a] + 1
       /\ lastOp'.op = "connection.create" =>
            domEdges'[<<lastOp'.el.a, lastOp'.el.b>>]
                <= domEdges[<<lastOp'.el.a, lastOp'.el.b>>] + 1]_vars

\* C22: the reset at the end of a drag leaves the boundary state at its
\* defaults (flags false, handle null and no interval live, offsets 0, no
\* port) from every state; a second reset changes nothing; and with no
\* interval set it clears no timer and changes the offsets only.
C22_DragEndResets ==
    [][lastOp'.op = "dragEnd" =>
          /\ dragBoundaryInterval' = DragBoundaryIntervalDefault
          /\ timers' = {}
          /\ setDragBoundaryIntervalToDefault(State') = State'
          /\ dragBoundaryInterval.interval = 0 =>
                /\ timers' = timers
                /\ dragBoundaryInterval' =
                      [dragBoundaryInterval EXCEPT !.xOffset = RInt(0),
                                                   !.yOffset = RInt(0)]]_vars

\* a drag ended with its interval live after a tick
C22_EndedWhileScrolling ==
    /\ lastOp.op = "dragEnd"
    /\ lastOp.args = <<TRUE>>
    /\ matrix.e # RInt(0)

\* C23: every tick during a drag translates the viewport by
\* dragBoundaryTranslation away from each side that the last pointer-move
\* hit (e falls for right, rises for left; f falls for bottom, rises for
\* top) and leaves an axis without a hit as it was.
C23_TickFollowsLastMove ==
    [][(lastOp'.op = "tick" /\ drag.on) =>
          /\ matrix'.e = RSub(matrix.e, RInt(drag.bx * dragBoundaryTranslation))
          /\ matrix'.f = RSub(matrix.f, RInt(drag.by * dragBoundaryTranslation))]_vars

\* C24: a tick moves the dragged element and the accumulated offset by the
\* same amount on each axis, of size dragBoundaryTranslation / scale on an
\* axis whose flag is set and 0 on the other.
C24_TickMovesElementWithOffset ==
    [][(lastOp'.op = "tick" /\ drag.on) =>
          LET ex == RSub(drag'.mx.e, drag.mx.e)
              ey == RSub(drag'.mx.f, drag.mx.f)
              step == RDiv(RInt(dragBoundaryTranslation), scale)
          IN  /\ ex = RSub(dragBoundaryInterval'.xOffset, dragBoundaryInterval.xOffset)
              /\ ey = RSub(dragBoundaryInterval'.yOffset, dragBoundaryInterval.yOffset)
              /\ RAbs(ex) = (IF dragBoundaryInterval.x THEN step ELSE RInt(0))
              /\ RAbs(ey) = (IF dragBoundaryInterval.y THEN step ELSE RInt(0))]_vars

\* a tick at the scale 1/2 that has moved the element by 10
C24_TickAtHalfScale ==
    /\ lastOp.op = "tick"
    /\ drag.on
    /\ scale = Rat(1, 2)
    /\ RAbs(dragBoundaryInterval.xOffset) = RInt(10)

\* C25: after a pointer-move the element stands, on an axis without a hit,
\* at its start plus adaptToScale(pointer delta) plus the accumulated offset
\* of the axis, and on an axis with a hit at the canvas coordinate of the
\* inner edge of the zone that was hit.
C25_ScaledDeltaPerAxis ==
    lastOp.op = "dragMove" =>
        LET r == workflowBoundingClientRect
            innerX == IF drag.bx = 1 THEN RSub(RInt(Right(r)), dragBoundary)
                      ELSE RAdd(RInt(r.left), dragBoundary)
            innerY == IF drag.by = 1 THEN RSub(RInt(Bottom(r)), dragBoundary)
                      ELSE RAdd(RInt(r.top), dragBoundary)
        IN  /\ drag.mx.e =
                 IF drag.bx = 0
                 THEN RAdd(drag.startX,
                           RAdd(RDiv(RInt(drag.cx - drag.sx), scale),
                                dragBoundaryInterval.xOffset))
                 ELSE RDiv(RSub(RSub(innerX, RInt(svgRect.left)), matrix.e), matrix.a)
            /\ drag.mx.f =
                 IF drag.by = 0
                 THEN RAdd(drag.startY,
                           RAdd(RDiv(RInt(drag.cy - drag.sy), scale),
                                dragBoundaryInterval.yOffset))
                 ELSE RDiv(RSub(RSub(innerY, RInt(svgRect.top)), matrix.f), matrix.a)

\* a pointer-move into the bottom zone only, after the right zone scrolled
C25_OffsetOnFreeAxis ==
    /\ lastOp.op = "dragMove"
    /\ drag.bx = 0
    /\ drag.by = 1
    /\ dragBoundaryInterval.xOffset # RInt(0)
    /\ drag.cx # drag.sx

\* C28: during a drag at most one interval is live, the handle is set
\* exactly when an interval is live and exactly when a flag is set, and
\* after a pointer-move the flag of an axis is set exactly when the move
\* hit a boundary of that axis.
C28_OneIntervalMatchesFlags ==
    drag.on =>
        /\ Cardinality(timers) <= 1
        /\ dragBoundaryInterval.interval # 0 <=> timers # {}
        /\ timers # {} <=> (dragBoundaryInterval.x \/ dragBoundaryInterval.y)
        /\ lastOp.op = "dragMove" =>
              /\ dragBoundaryInterval.x <=> drag.bx # 0
              /\ dragBoundaryInterval.y <=> drag.by # 0

\* a pointer-move from a corner to the right zone alone
C28_CornerToSide ==
    /\ lastOp.op = "dragMove"
    /\ drag.on
    /\ drag.bx = 1
    /\ drag.by = 0
    /\ nTimers = 2
    /\ Cardinality(timers) = 1

\* C26: once a pointer-move that hit a boundary has adjusted dragBoundary,
\* the zones leave an interior on both axes: left + dragBoundary <
\* right - dragBoundary and top + dragBoundary < bottom - dragBoundary.
C26_InteriorNotDegenerate ==
    (lastOp.op = "dragMove" /\ (drag.bx # 0 \/ drag.by # 0)) =>
        LET r == workflowBoundingClientRect
        IN  /\ RLt(RAdd(RInt(r.left), dragBoundary), RSub(RInt(Right(r)), dragBoundary))
            /\ RLt(RAdd(RInt(r.top), dragBoundary), RSub(RInt(Bottom(r)), dragBoundary))

EmissionsOf(tr, name) == {i \in 1..Len(tr) : tr[i].ev = name}

\* C29: a mutation that returns without an exception (deleteSelection,
\* setModelPosition, a create command) leaves a trace in which every
\* beforeChange is followed by exactly one afterChange, with the same change
\* data and before the next beforeChange; setModelPosition with emitEvents
\* false emits neither.
C29_ChangeEventsBracketed ==
    (lastOp.op \in {"deleteSelection", "setModelPosition"} \cup HubCommands
        /\ ~lastOp.threw) =>
       /\ \A i \in EmissionsOf(trace, "beforeChange") :
             \E j \in EmissionsOf(trace, "afterChange") :
                /\ j > i
                /\ trace[j].el = trace[i].el
                /\ \A m \in (i + 1)..Len(trace) :
                      (m # j /\ trace[m].ev \in {"beforeChange", "afterChange"}) => m > j
       /\ Cardinality(EmissionsOf(trace, "beforeChange"))
             = Cardinality(EmissionsOf(trace, "afterChange"))
       /\ (lastOp.op = "setModelPosition" /\ ~lastOp.args[2]) =>
             /\ EmissionsOf(trace, "beforeChange") = {}
             /\ EmissionsOf(trace, "afterChange") = {}

\* C30: whenever a selectionChange handler is called with an element (not
\* null), that element carries the class "selected" at that moment.
C30_AnnouncedElementIsSelected ==
    \A i \in 1..Len(heard) : heard[i].el # NoEl => heard[i].selected

\* C21: when an interval is live and a pointer-move finds the pointer on no
\* boundary, then after that pointer-move no interval is live and the
\* handle is null, both flags are false, the offsets are what they were,
\* and no candidate port carries the snap highlight except the port this
\* very pointer-move snapped to.
C21_InteriorMoveEndsAutoscroll ==
    [][(/\ lastOp'.op = "dragMoveGhost"
        /\ dragBoundaryInterval.interval # 0
        /\ drag'.bx = 0 /\ drag'.by = 0) =>
          /\ timers' = {}
          /\ dragBoundaryInterval'.interval = 0
          /\ ~dragBoundaryInterval'.x /\ ~dragBoundaryInterval'.y
          /\ dragBoundaryInterval'.xOffset = dragBoundaryInterval.xOffset
          /\ dragBoundaryInterval'.yOffset = dragBoundaryInterval.yOffset
          /\ \A p \in ConnectionPorts :
                p \in highlighted' => p = drag'.highlightedPort]_vars

\* C31: the loop that resizes dragBoundary ends: a call that has reached
\* the loop leaves it, in every viewport rectangle and from every value of
\* dragBoundary.
C31_ResizeLoopTerminates ==
    (phase = "resizing") ~> (phase = "resized")

\* C32: a fitToViewport that throws because the svg root has zero width or
\* zero height leaves the scale and the translation of the viewport as
\* they were before the call.
C32_FailedFitLeavesViewport ==
    [][(lastOp'.op = "fitToViewport" /\ lastOp'.threw /\ fitThrows(State)) =>
          /\ scale' = scale
          /\ matrix' = matrix]_vars

====
